---------------------------- MODULE Spec2Model ----------------------------
(***************************************************************************)
(* Model of the FMCSA bulk ingestion code.                                 *)
(*                                                                         *)
(*   SpecBulk   BulkFMCSAFetcher.fetch_all (src/fetch_all_carriers.py):    *)
(*              paged download with batch files and a pickle checkpoint,   *)
(*              under process crashes and restarts.                        *)
(*   SpecNorm   CarrierDataNormalizer.normalize on one raw record.         *)
(*   SpecLoad   IngestionPipeline._process_batch: one batch loaded twice   *)
(*              into the carriers table.                                   *)
(*   SpecClient FMCSAClient.fetch_batch: the retry loop of one call.       *)
(*   SpecPipe   IngestionPipeline.run_full_ingestion and                   *)
(*              run_incremental_update over FMCSAClient.fetch_all.         *)
(*                                                                         *)
(* Each specification drives one component; the variables of the other     *)
(* components stay at their idle values.                                   *)
(***************************************************************************)
EXTENDS Integers, Sequences, FiniteSets, TLC

VARIABLES
    \* ---- BulkFMCSAFetcher: environment
    src_len,            \* number of records the static remote source holds
    \* ---- BulkFMCSAFetcher: disk (survives a crash)
    checkpoint_file,    \* fetch_checkpoint.pkl
    batch_files,        \* carrier_data/batch_NNNNN.json, batch_num -> content
    all_carriers_json,  \* all_carriers.json
    \* ---- BulkFMCSAFetcher: process memory (lost by a crash)
    bpc,                \* position inside fetch_all
    carriers,           \* self.carriers
    batch,              \* local batch
    start_offset, b_total_fetched, total_count,
    offset, batch_num, consecutive_empty,
    \* ---- BulkFMCSAFetcher: observation
    requested,          \* offsets requested by this process
    durable,            \* batches saved since the checkpoint was last cleared
    restarts,           \* processes started after the first
    torn_crash,         \* a crash interrupted a checkpoint write since the last clear
    \* ---- CarrierDataNormalizer.normalize
    npc,                \* "call" before normalize runs, "done" after
    n_raw,              \* the raw record handed to normalize, field -> value
    n_result,           \* <<"ok", normalized>> or the exception raised
    \* ---- the store and self.stats
    carriers_table,     \* the rows of table carriers
    total_inserted, total_updated, total_errors,
    db_clock,           \* CURRENT_TIMESTAMP of the next statement
    \* ---- one batch loaded twice
    lpc,                \* "load" while the batch is being loaded
    l_records,          \* the batch handed to _process_batch
    loads,              \* loads of the batch done
    l_raised,           \* the exception each load raised, "" for none
    table_init,         \* the table before the first load
    table_once,         \* the table after the first load
    \* ---- FMCSAClient.fetch_batch
    cpc,                \* position inside fetch_batch
    max_retries,        \* self.max_retries
    remote_len,         \* number of records the service holds
    c_limit, c_offset,  \* the parameters limit and offset
    attempt,            \* the loop variable
    c_response,         \* what the last client.get ended in
    c_outcomes,         \* what every client.get of this call ended in
    c_requests,         \* client.get calls made by this call
    c_slept,            \* the asyncio.sleep calls of this call
    c_result,           \* the data returned
    stats_total_requests, stats_total_records, stats_failed_requests,
    \* ---- IngestionPipeline: a run
    ppc,                \* position inside the run
    mode,               \* "full" or "incremental"
    max_errors,         \* self.max_errors
    batch_size,         \* self.batch_size
    stream,             \* the kinds of the records the service holds
    p_offset,           \* offset of fetch_all
    estimated_total,    \* estimated_total of fetch_all
    api_batch,          \* the page being processed
    p_idx,              \* position of the next record in api_batch
    batch_buffer,       \* batch_buffer
    total_fetched,      \* self.stats.total_fetched
    \* ---- IngestionPipeline: observation
    p_normalized,       \* records handed to normalize
    p_requested,        \* the offsets requested
    p_progress,         \* the calls of progress_callback
    p_batch_raised,     \* calls of _process_batch that raised
    db_faults,          \* statements that found the database unreachable
    p_raised,           \* the exception the run ended with, "" for none
    p_submitted,        \* the calls of _process_batch: <<keys, path, raised>>
    p_initial_table,    \* the carriers table as the run found it
    \* ---- FMCSAClient.fetch_all
    fpc,                \* position inside the generator
    f_batch_size,       \* batch_size of fetch_all
    f_where,            \* whether a where clause is given
    f_callback,         \* whether a progress_callback is given
    f_offset,           \* offset
    f_estimated_total,  \* estimated_total
    f_batch,            \* batch
    f_yielded,          \* the pages yielded so far
    f_log,              \* what fetch_all did, in order: requests, sleeps, pages
    \* ---- DatabasePool
    pool,               \* self.pool: NoPool, or the number of a pool created
    created,            \* the pools asyncpg.create_pool has returned
    closed,             \* the pools whose close() has returned
    tpc,                \* where each coroutine stands
    t_call,             \* the method each coroutine is in
    t_pool,             \* the pool each coroutine has a connection of, or closes
    t_calls,            \* the calls each coroutine has made
    t_raised,           \* what the last call of each coroutine raised
    \* ---- IngestionScheduler
    j_kind,             \* the job each coroutine runs
    j_stage,            \* the statement of the job each coroutine is at
    j_calls             \* the calls each coroutine had made when it reached the stage

bulkVars == <<src_len, checkpoint_file, batch_files, all_carriers_json, bpc,
              carriers, batch, start_offset, b_total_fetched, total_count,
              offset, batch_num, consecutive_empty, requested, durable,
              restarts, torn_crash>>

normVars == <<npc, n_raw, n_result>>

storeVars == <<carriers_table, total_inserted, total_updated, total_errors, db_clock>>
loadVars == <<lpc, l_records, loads, l_raised, table_init, table_once>>

clientVars == <<cpc, max_retries, remote_len, c_limit, c_offset, attempt,
                c_response, c_outcomes, c_requests, c_slept, c_result,
                stats_total_requests, stats_total_records, stats_failed_requests>>

pipeVars == <<ppc, mode, max_errors, batch_size, stream, p_offset, estimated_total,
              api_batch, p_idx, batch_buffer, total_fetched, p_normalized,
              p_requested, p_progress, p_batch_raised, db_faults, p_raised, p_submitted,
              p_initial_table>>

fetchVars == <<fpc, f_batch_size, f_where, f_callback, f_offset, f_estimated_total, f_batch, f_yielded, f_log>>

poolVars == <<pool, created, closed, tpc, t_call, t_pool, t_calls, t_raised>>

schedVars == <<j_kind, j_stage, j_calls>>

vars == <<bulkVars, normVars, storeVars, loadVars, clientVars, pipeVars, fetchVars, poolVars, schedVars>>

\* the variables of the components other than the bulk fetcher
bulkOthers == <<normVars, storeVars, loadVars, clientVars, pipeVars, fetchVars, poolVars, schedVars>>
\* the variables of the components other than the normalizer
normOthers == <<bulkVars, storeVars, loadVars, clientVars, pipeVars, fetchVars, poolVars, schedVars>>
\* the variables of the components other than the loader and the store
loadOthers == <<bulkVars, normVars, clientVars, pipeVars, fetchVars, poolVars, schedVars>>
\* the variables of the components other than the client
clientOthers == <<bulkVars, normVars, storeVars, loadVars, pipeVars, fetchVars, poolVars, schedVars>>
\* the variables of the components other than the pipeline and the store
pipeOthers == <<bulkVars, normVars, loadVars, clientVars, fetchVars, poolVars, schedVars>>

Min(a, b) == IF a < b THEN a ELSE b
Max(a, b) == IF a > b THEN a ELSE b

(***************************************************************************)
(* CarrierDataNormalizer (src/fmcsa_system/ingestion/ingestion_pipeline.py) *)
(*                                                                         *)
(* A Python value is a tagged tuple; a string is a sequence of              *)
(* one-character strings, so that strip, upper, int(), Decimal(), re and    *)
(* strptime are computed character by character.                            *)
(***************************************************************************)
None == <<"none">>
Str(s) == <<"str", s>>
IntVal(n) == <<"int", n>>
Bool(b) == <<"bool", b>>
Dec(v) == <<"dec", v>>
Date(y, m, d) == <<"date", <<y, m, d>>>>
List(l) == <<"list", l>>
Raise(e) == <<"raise", e>>
\* a field the raw record does not hold
Absent == <<"absent">>

IsStr(v) == v[1] = "str"
IsRaise(v) == v[1] = "raise"

\* Python truth value
Truthy(v) ==
    CASE v[1] = "none" -> FALSE
      [] v[1] = "str" -> v[2] # <<>>
      [] v[1] = "int" -> v[2] # 0
      [] v[1] = "bool" -> v[2]
      [] v[1] = "list" -> v[2] # <<>>
      [] OTHER -> TRUE

DigitSeq == <<"0", "1", "2", "3", "4", "5", "6", "7", "8", "9">>
LowerSeq == <<"a", "b", "c", "d", "e", "f", "g", "h", "i", "j", "k", "l", "m",
              "n", "o", "p", "q", "r", "s", "t", "u", "v", "w", "x", "y", "z">>
UpperSeq == <<"A", "B", "C", "D", "E", "F", "G", "H", "I", "J", "K", "L", "M",
              "N", "O", "P", "Q", "R", "S", "T", "U", "V", "W", "X", "Y", "Z">>
Range(f) == {f[i] : i \in DOMAIN f}
Digits == Range(DigitSeq)
UpperLetters == Range(UpperSeq)
\* the whitespace of the model's alphabet
Whitespace == {" "}

IndexOf(c, seq) == CHOOSE i \in DOMAIN seq : seq[i] = c
DigitValue(c) == IndexOf(c, DigitSeq) - 1
ToUpper(c) == IF c \in Range(LowerSeq) THEN UpperSeq[IndexOf(c, LowerSeq)] ELSE c
ToLower(c) == IF c \in Range(UpperSeq) THEN LowerSeq[IndexOf(c, UpperSeq)] ELSE c
\* str.upper(), str.lower()
Upper(s) == [i \in DOMAIN s |-> ToUpper(s[i])]
Lower(s) == [i \in DOMAIN s |-> ToLower(s[i])]

\* str.strip()
RECURSIVE LStrip(_)
LStrip(s) == IF s # <<>> /\ Head(s) \in Whitespace THEN LStrip(Tail(s)) ELSE s
RECURSIVE RStrip(_)
RStrip(s) ==
    IF s # <<>> /\ s[Len(s)] \in Whitespace THEN RStrip(SubSeq(s, 1, Len(s) - 1)) ELSE s
Strip(s) == RStrip(LStrip(s))

\* s[:n]
Prefix(s, n) == SubSeq(s, 1, Min(n, Len(s)))
\* re.sub(r'[...]', '', s): drop the characters of s that are in drop
RECURSIVE Remove(_, _)
Remove(s, drop) ==
    IF s = <<>> THEN <<>>
    ELSE (IF Head(s) \in drop THEN <<>> ELSE <<Head(s)>>) \o Remove(Tail(s), drop)
RECURSIVE Keep(_, _)
Keep(s, keep) ==
    IF s = <<>> THEN <<>>
    ELSE (IF Head(s) \in keep THEN <<Head(s)>> ELSE <<>>) \o Keep(Tail(s), keep)
AllIn(s, chars) == \A i \in DOMAIN s : s[i] \in chars
Contains(s, c) == \E i \in DOMAIN s : s[i] = c

RECURSIVE DigitsValue(_)
DigitsValue(s) ==
    IF s = <<>> THEN 0 ELSE 10 * DigitsValue(SubSeq(s, 1, Len(s) - 1)) + DigitValue(s[Len(s)])

RECURSIVE NatToChars(_)
NatToChars(n) ==
    IF n < 10 THEN <<DigitSeq[n + 1]>> ELSE NatToChars(n \div 10) \o <<DigitSeq[(n % 10) + 1]>>

\* str(value)
PyStr(v) ==
    CASE v[1] = "str" -> v[2]
      [] v[1] = "int" -> IF v[2] < 0 THEN <<"-">> \o NatToChars(0 - v[2]) ELSE NatToChars(v[2])
      [] v[1] = "bool" -> IF v[2] THEN <<"T", "r", "u", "e">> ELSE <<"F", "a", "l", "s", "e">>
      [] OTHER -> <<"N", "o", "n", "e">>

\* int(value): an integer, or ValueError / TypeError
PyInt(v) ==
    CASE v[1] = "int" -> v
      [] v[1] = "bool" -> IntVal(IF v[2] THEN 1 ELSE 0)
      [] v[1] = "str" ->
            LET t == Strip(v[2])
                signed == t # <<>> /\ Head(t) \in {"+", "-"}
                body == IF signed THEN Tail(t) ELSE t
            IN IF body # <<>> /\ AllIn(body, Digits)
               THEN IntVal(IF signed /\ Head(t) = "-" THEN 0 - DigitsValue(body)
                        ELSE DigitsValue(body))
               ELSE Raise("ValueError")
      [] OTHER -> Raise("TypeError")

\* the text syntax decimal.Decimal accepts:
\* [sign] (digits [. digits] | . digits) [E [sign] digits] | Inf | Infinity | [s]NaN[digits]
DecimalMantissa(m) ==
    LET dots == {i \in DOMAIN m : m[i] = "."}
    IN /\ AllIn(m, Digits \cup {"."})
       /\ Cardinality(dots) <= 1
       /\ \E i \in DOMAIN m : m[i] \in Digits
DecimalExponent(e) ==
    LET body == IF e # <<>> /\ Head(e) \in {"+", "-"} THEN Tail(e) ELSE e
    IN body # <<>> /\ AllIn(body, Digits)
DecimalSyntax(s) ==
    LET t == Strip(s)
        u == Lower(IF t # <<>> /\ Head(t) \in {"+", "-"} THEN Tail(t) ELSE t)
        es == {i \in DOMAIN u : u[i] = "e"}
        nan == IF u # <<>> /\ Head(u) = "s" THEN Tail(u) ELSE u
    IN \/ u \in {<<"i", "n", "f">>, <<"i", "n", "f", "i", "n", "i", "t", "y">>}
       \/ /\ Len(nan) >= 3
          /\ SubSeq(nan, 1, 3) = <<"n", "a", "n">>
          /\ AllIn(SubSeq(nan, 4, Len(nan)), Digits)
       \/ /\ es = {}
          /\ DecimalMantissa(u)
       \/ /\ es # {}
          /\ LET k == CHOOSE i \in es : \A j \in es : i <= j
             IN /\ DecimalMantissa(SubSeq(u, 1, k - 1))
                /\ DecimalExponent(SubSeq(u, k + 1, Len(u)))

\* Decimal(value): a Decimal, or decimal.InvalidOperation for a string that is
\* no number (InvalidOperation is an ArithmeticError, not a ValueError)
PyDecimal(v) ==
    CASE v[1] = "str" -> IF DecimalSyntax(v[2]) THEN Dec(v) ELSE Raise("InvalidOperation")
      [] v[1] = "int" -> Dec(v)
      [] v[1] = "bool" -> Dec(IntVal(IF v[2] THEN 1 ELSE 0))
      [] OTHER -> Raise("TypeError")

\* ---- datetime.strptime: a format is a sequence of directives and literals
D19 == Digits \ {"0"}
D05 == {"0", "1", "2", "3", "4", "5"}

\* the alternatives of the regular expression _strptime builds for a token,
\* in the order the regular expression tries them (case is ignored)
TokenAlts(tok) ==
    CASE tok = "%Y" -> << <<Digits, Digits, Digits, Digits>> >>
      [] tok = "%m" -> << <<{"1"}, {"0", "1", "2"}>>, <<{"0"}, D19>>, <<D19>> >>
      [] tok = "%d" -> << <<{"3"}, {"0", "1"}>>, <<{"1", "2"}, Digits>>, <<{"0"}, D19>>,
                          <<D19>>, <<{" "}, D19>> >>
      [] tok = "%H" -> << <<{"2"}, {"0", "1", "2", "3"}>>, <<{"0", "1"}, Digits>>, <<Digits>> >>
      [] tok = "%M" -> << <<D05, Digits>>, <<Digits>> >>
      [] tok = "%S" -> << <<{"6"}, {"0", "1"}>>, <<D05, Digits>>, <<Digits>> >>
      [] tok = "%f" -> << <<Digits, Digits, Digits, Digits, Digits, Digits>>,
                          <<Digits, Digits, Digits, Digits, Digits>>,
                          <<Digits, Digits, Digits, Digits>>,
                          <<Digits, Digits, Digits>>,
                          <<Digits, Digits>>,
                          <<Digits>> >>
      [] OTHER -> << <<{ToLower(tok), ToUpper(tok)}>> >>

AltMatches(alt, s, pos) ==
    /\ pos + Len(alt) - 1 <= Len(s)
    /\ \A i \in 1..Len(alt) : s[pos + i - 1] \in alt[i]

NoMatch == [ok |-> FALSE, end |-> 0, parts |-> <<>>]

\* re.match of the format's tokens k.. against s from pos: the first
\* alternative of token k after which the rest matches
RECURSIVE MatchFrom(_, _, _, _)
RECURSIVE TryAlts(_, _, _, _, _)
MatchFrom(fmt, k, s, pos) ==
    IF k > Len(fmt) THEN [ok |-> TRUE, end |-> pos, parts |-> <<>>]
    ELSE TryAlts(fmt, k, s, pos, 1)
TryAlts(fmt, k, s, pos, a) ==
    LET alts == TokenAlts(fmt[k])
    IN IF a > Len(alts) THEN NoMatch
       ELSE IF AltMatches(alts[a], s, pos)
            THEN LET rest == MatchFrom(fmt, k + 1, s, pos + Len(alts[a]))
                 IN IF rest.ok
                    THEN [ok |-> TRUE, end |-> rest.end,
                          parts |-> <<SubSeq(s, pos, pos + Len(alts[a]) - 1)>> \o rest.parts]
                    ELSE TryAlts(fmt, k, s, pos, a + 1)
            ELSE TryAlts(fmt, k, s, pos, a + 1)

IsLeap(y) == (y % 4 = 0 /\ y % 100 # 0) \/ y % 400 = 0
DaysInMonth(y, m) ==
    IF m = 2 THEN (IF IsLeap(y) THEN 29 ELSE 28)
    ELSE IF m \in {4, 6, 9, 11} THEN 30 ELSE 31

\* the number a directive matched (0 when the format has no such directive)
FieldValue(fmt, parts, tok) ==
    IF tok \in Range(fmt) THEN DigitsValue(Keep(parts[IndexOf(tok, fmt)], Digits)) ELSE 0

\* datetime.strptime(s, fmt).date(): a date, or ValueError
Strptime(s, fmt) ==
    LET r == MatchFrom(fmt, 1, s, 1)
    IN IF ~r.ok \/ r.end # Len(s) + 1 THEN Raise("ValueError")
       ELSE LET y == FieldValue(fmt, r.parts, "%Y")
                m == FieldValue(fmt, r.parts, "%m")
                d == FieldValue(fmt, r.parts, "%d")
                sec == FieldValue(fmt, r.parts, "%S")
            IN IF y >= 1 /\ d <= DaysInMonth(y, m) /\ sec <= 59
               THEN Date(y, m, d) ELSE Raise("ValueError")

\* _parse_date: formats, in the order they are tried
DATE_FORMATS ==
    << <<"%Y", "-", "%m", "-", "%d", "T", "%H", ":", "%M", ":", "%S", ".", "%f">>,
       <<"%Y", "-", "%m", "-", "%d", "T", "%H", ":", "%M", ":", "%S">>,
       <<"%Y", "-", "%m", "-", "%d">>,
       <<"%m", "/", "%d", "/", "%Y">>,
       <<"%m", "-", "%d", "-", "%Y">> >>

\* mutant: a string no format parses becomes a default date
RECURSIVE TryFormatsDefault(_, _)
TryFormatsDefault(s, i) ==
    IF i > Len(DATE_FORMATS) THEN Date(1900, 1, 1)
    ELSE LET r == Strptime(s, DATE_FORMATS[i])
         IN IF IsRaise(r) THEN TryFormatsDefault(s, i + 1) ELSE r

RECURSIVE TryFormats(_, _)
TryFormats(s, i) ==
    IF i > Len(DATE_FORMATS) THEN None
    ELSE LET r == Strptime(s, DATE_FORMATS[i])
         IN IF IsRaise(r) THEN TryFormats(s, i + 1) ELSE r

parse_date(date_value) ==
    IF ~Truthy(date_value) THEN None
    ELSE IF date_value[1] = "date" THEN date_value
    ELSE IF IsStr(date_value) THEN TryFormats(date_value[2], 1)
    ELSE None

\* ---- _clean_value
NullTokens == {<<"N", "U", "L", "L">>, <<"N", "O", "N", "E">>, <<"N", "/", "A">>}
TrueTokens == {<<"Y">>, <<"Y", "E", "S">>, <<"T", "R", "U", "E">>, <<"1">>}
IntegerFields == {"usdot_number", "power_units", "drivers", "mcs_150_mileage"}
DecimalFields == {"liability_insurance_amount", "cargo_insurance_amount",
                  "bond_insurance_amount"}
\* the database fields whose name ends with '_date'
DateFields == {"mcs_150_date", "out_of_service_date", "safety_rating_date",
               "safety_review_date", "liability_insurance_date",
               "cargo_insurance_date", "bond_insurance_date"}
BooleanFields == {"hazmat_flag", "hazmat_placardable"}
StateFields == {"physical_state", "mailing_state"}
ZipFields == {"physical_zip", "mailing_zip"}
PhoneFields == {"telephone", "fax"}

\* ^\d{5}(-\d{4})?$
ZipSyntax(z) ==
    \/ Len(z) = 5 /\ AllIn(z, Digits)
    \/ /\ Len(z) = 10
       /\ AllIn(SubSeq(z, 1, 5), Digits)
       /\ z[6] = "-"
       /\ AllIn(SubSeq(z, 7, 10), Digits)

\* what the except (ValueError, TypeError) clauses catch
Caught(r) == IsRaise(r) /\ r[2] \in {"ValueError", "TypeError"}

clean_integer(value) ==
    IF Truthy(value)
    THEN LET r == PyInt(value) IN IF Caught(r) THEN None ELSE r
    ELSE None

clean_decimal(value) ==
    LET v == IF IsStr(value) THEN Str(Remove(value[2], {"$", ","})) ELSE value
    IN IF Truthy(v)
       THEN LET r == PyDecimal(v) IN IF Caught(r) THEN None ELSE r
       ELSE None

clean_boolean(value) ==
    IF IsStr(value) THEN Bool(Upper(value[2]) \in TrueTokens) ELSE Bool(Truthy(value))

clean_state(value) ==
    IF IsStr(value)
    THEN LET state == Prefix(Upper(value[2]), 2)
         IN IF Len(state) = 2 /\ AllIn(state, UpperLetters) THEN Str(state) ELSE None
    ELSE None

clean_zip(value) ==
    IF IsStr(value)
    THEN LET zip_code == Keep(value[2], Digits \cup {"-"})
         IN IF ZipSyntax(zip_code) THEN Str(zip_code) ELSE None
    ELSE None

clean_phone(value) ==
    IF IsStr(value)
    THEN LET phone == Keep(value[2], Digits \cup Whitespace \cup {"-", "(", ")", "+"})
         IN IF phone # <<>> /\ Len(phone) >= 10 THEN Str(Prefix(phone, 20)) ELSE None
    ELSE None

clean_email(value) ==
    IF IsStr(value)
    THEN LET email == Lower(value[2])
         IN IF Contains(email, "@") /\ Contains(email, ".")
            THEN Str(Prefix(email, 255)) ELSE None
    ELSE None

\* _clean_value(field_name, value): the cleaned value, or the exception that
\* escapes it
clean_value(field_name, raw_value) ==
    IF raw_value = None THEN None
    ELSE LET value == IF IsStr(raw_value) THEN Str(Strip(raw_value[2])) ELSE raw_value
         IN IF IsStr(value) /\ (value[2] = <<>> \/ Upper(value[2]) \in NullTokens)
            THEN None
            ELSE CASE field_name \in IntegerFields -> clean_integer(value)
                   [] field_name \in DecimalFields -> clean_decimal(value)
                   [] field_name \in DateFields -> parse_date(value)
                   [] field_name \in BooleanFields -> clean_boolean(value)
                   [] field_name \in StateFields -> clean_state(value)
                   [] field_name \in ZipFields -> clean_zip(value)
                   [] field_name \in PhoneFields -> clean_phone(value)
                   [] field_name = "email" -> clean_email(value)
                   [] OTHER -> IF Truthy(value) THEN Str(PyStr(value)) ELSE None

\* ---- normalize
FIELD_MAPPING ==
    [usdot_number |-> "usdot_number",
     legal_name |-> "legal_name",
     dba_name |-> "dba_name",
     phy_street |-> "physical_address",
     phy_city |-> "physical_city",
     phy_state |-> "physical_state",
     phy_zip |-> "physical_zip",
     phy_country |-> "physical_country",
     mailing_street |-> "mailing_address",
     mailing_city |-> "mailing_city",
     mailing_state |-> "mailing_state",
     mailing_zip |-> "mailing_zip",
     telephone |-> "telephone",
     fax |-> "fax",
     email_address |-> "email",
     mcs_150_date |-> "mcs_150_date",
     mcs_150_mileage_year |-> "mcs_150_mileage",
     entity_type |-> "entity_type",
     operating_status |-> "operating_status",
     out_of_service_date |-> "out_of_service_date",
     power_units |-> "power_units",
     drivers |-> "drivers",
     carrier_operation |-> "carrier_operation",
     hazmat_flag |-> "hazmat_flag",
     pc_flag |-> "hazmat_placardable",
     safety_rating |-> "safety_rating",
     safety_rating_date |-> "safety_rating_date",
     safety_review_date |-> "safety_review_date",
     liability_required_amount |-> "liability_insurance_amount",
     liability_insurance_on_file_date |-> "liability_insurance_date",
     cargo_required_amount |-> "cargo_insurance_amount",
     cargo_insurance_on_file_date |-> "cargo_insurance_date",
     bond_insurance_required_amount |-> "bond_insurance_amount",
     bond_insurance_on_file_date |-> "bond_insurance_date"]

CARGO_FIELDS == <<"cargo_carried_1", "cargo_carried_2", "cargo_carried_3",
                  "cargo_carried_4", "cargo_carried_5", "cargo_carried_6",
                  "cargo_carried_7", "cargo_carried_8">>

\* _extract_cargo_carried: the cargo types from field i on
RECURSIVE cargo_from(_, _)
cargo_from(record, i) ==
    IF i > Len(CARGO_FIELDS) THEN <<>>
    ELSE LET field == CARGO_FIELDS[i]
             cargo == IF field \in DOMAIN record /\ Truthy(record[field])
                      THEN Strip(PyStr(record[field])) ELSE <<>>
         IN (IF cargo # <<>> /\ Upper(cargo) \notin NullTokens THEN <<Str(cargo)>> ELSE <<>>)
            \o cargo_from(record, i + 1)

extract_cargo_carried(record) == cargo_from(record, 1)

\* json.dumps(fmcsa_record)
json_dumps(record) == <<"json", record>>

UnknownCarrier == <<"U", "n", "k", "n", "o", "w", "n", " ", "C", "a", "r", "r", "i", "e", "r", " ", "#">>

\* the raw fields normalize cleans: mapped, present, not None and not ''
MappedFields(fmcsa_record) ==
    {f \in DOMAIN FIELD_MAPPING \cap DOMAIN fmcsa_record :
        fmcsa_record[f] # None /\ fmcsa_record[f] # Str(<<>>)}

\* normalized[db_field] = cls._clean_value(db_field, value)
normalize_mapped(fmcsa_record, cleaned) ==
    [d \in {FIELD_MAPPING[f] : f \in DOMAIN cleaned} |->
        cleaned[CHOOSE f \in DOMAIN cleaned : FIELD_MAPPING[f] = d]]

\* cargo_carried = cls._extract_cargo_carried(fmcsa_record); if cargo_carried: ...
with_cargo(mapped, cargo_carried) ==
    IF cargo_carried # <<>>
    THEN [d \in DOMAIN mapped \cup {"cargo_carried"} |->
            IF d = "cargo_carried" THEN List(cargo_carried) ELSE mapped[d]]
    ELSE mapped

\* the legal name of the record, a placeholder when it has none
legal_name_of(normalized) ==
    IF "legal_name" \notin DOMAIN normalized \/ ~Truthy(normalized["legal_name"])
    THEN Str(UnknownCarrier \o PyStr(normalized["usdot_number"]))
    ELSE normalized["legal_name"]

\* the required-field check and the fields added last
normalize_finish(fmcsa_record, normalized) ==
    IF "usdot_number" \notin DOMAIN normalized THEN Raise("ValueError")
    ELSE <<"ok", [d \in DOMAIN normalized \cup {"legal_name", "raw_data"} |->
                    CASE d = "legal_name" -> legal_name_of(normalized)
                      [] d = "raw_data" -> json_dumps(fmcsa_record)
                      [] OTHER -> normalized[d]]>>

\* the rest of normalize once every mapped field is cleaned: an exception
\* that escaped _clean_value escapes normalize
normalize_cleaned(fmcsa_record, cleaned) ==
    IF \E f \in DOMAIN cleaned : IsRaise(cleaned[f])
    THEN cleaned[CHOOSE f \in DOMAIN cleaned : IsRaise(cleaned[f])]
    ELSE normalize_finish(fmcsa_record,
            with_cargo(normalize_mapped(fmcsa_record, cleaned),
                       extract_cargo_carried(fmcsa_record)))

\* normalize(fmcsa_record): <<"ok", normalized>> or the exception raised
normalize(fmcsa_record) ==
    normalize_cleaned(fmcsa_record,
        [f \in MappedFields(fmcsa_record) |->
            clean_value(FIELD_MAPPING[f], fmcsa_record[f])])

\* ---- raw strings normalize is applied to
KeyStrings ==
    {<<>>,
     <<" ">>,
     <<"7">>,
     <<" ", "7", " ">>,
     <<"0">>,
     <<"-", "7">>,
     <<"+", "7">>,
     <<"a", "b", "c">>,
     <<"7", ".", "5">>,
     <<"N", "U", "L", "L">>,
     <<"0", "0", "7">>}

FieldStrings ==
    {<<>>,
     <<" ">>,
     <<"a", "b", "c">>,
     <<"7">>,
     <<"-", "7">>,
     <<"7", ".", "5">>,
     <<"$", "1", ",", "0", "0", "0">>,
     <<"$">>,
     <<"1", "e", "3">>,
     <<"N", "a", "N">>,
     <<"N", "U", "L", "L">>,
     <<"n", "/", "a">>,
     <<"Y">>,
     <<"y", "e", "s">>,
     <<"n", "o">>,
     <<"t", "x">>,
     <<"T">>,
     <<"T", "9">>,
     <<"7", "7", "0", "0", "1">>,
     <<"7", "7", "0", "0", "1", "-", "1", "2", "3", "4">>,
     <<"7", "7", "0", "0">>,
     <<"7", "7", "0", "0", "1", "-", "1", "2">>,
     <<"(", "7", "1", "3", ")", " ", "5", "5", "5", "-", "1", "2", "3", "4">>,
     <<"5", "5", "5", "-", "1", "2", "3", "4">>,
     <<"A", "@", "B", ".", "C", "O">>,
     <<"a", ".", "b">>,
     <<"2", "0", "2", "4", "-", "0", "6", "-", "1", "5">>,
     <<"0", "6", "/", "1", "5", "/", "2", "0", "2", "4">>,
     <<"6", "/", "5", "/", "2", "0", "2", "4">>,
     <<"1", "3", "/", "4", "0", "/", "2", "0", "2", "4">>,
     <<"i", "n", "v", "a", "l", "i", "d">>,
     <<"1", "2", "-", "3", "1", "-", "1", "9", "9", "9">>,
     <<"2", "0", "2", "4", "-", "0", "6", "-", "1", "5", "T", "1", "0", ":", "0", "0", ":", "0", "0">>,
     <<"2", "0", "2", "4", "-", "0", "6", "-", "1", "5", "t", "1", "0", ":", "0", "0", ":", "0", "0">>,
     <<"2", "0", "2", "4", "-", "0", "6", "-", "1", "5", "T", "1", "0", ":", "0", "0", ":", "0", "0", ".", "5">>,
     <<"0", "2", "/", "3", "0", "/", "2", "0", "2", "4">>,
     <<"0", "2", "/", "2", "9", "/", "2", "0", "2", "4">>,
     <<"0", "2", "/", "2", "9", "/", "2", "0", "2", "3">>,
     <<"2", "0", "2", "4", "-", "0", "1", "-", "3", "1", "5">>,
     <<"0", "0", "0", "0", "-", "0", "1", "-", "0", "1">>,
     <<"2", "0", "2", "4", "-", "0", "6", "-", "1", "5", "T", "1", "0", ":", "0", "0", ":", "6", "0">>}

\* normalize is not running
NormIdle ==
    /\ npc = "idle"
    /\ n_raw = <<>>
    /\ n_result = None

\* the store and the loader are not in use
StoreIdle ==
    /\ carriers_table = <<>>
    /\ total_inserted = 0
    /\ total_updated = 0
    /\ total_errors = 0
    /\ db_clock = 0

LoadIdle ==
    /\ lpc = "idle"
    /\ l_records = <<>>
    /\ loads = 0
    /\ l_raised = <<>>
    /\ table_init = <<>>
    /\ table_once = <<>>

\* the client is not in use
ClientIdle ==
    /\ cpc = "idle"
    /\ max_retries = 0
    /\ remote_len = 0
    /\ c_limit = 0
    /\ c_offset = 0
    /\ attempt = 0
    /\ c_response = ""
    /\ c_outcomes = <<>>
    /\ c_requests = 0
    /\ c_slept = <<>>
    /\ c_result = <<>>
    /\ stats_total_requests = 0
    /\ stats_total_records = 0
    /\ stats_failed_requests = 0

\* no run of the pipeline is in progress
PipeIdle ==
    /\ ppc = "idle"
    /\ mode = "none"
    /\ max_errors = 0
    /\ batch_size = 1
    /\ stream = <<>>
    /\ p_offset = 0
    /\ estimated_total = 0
    /\ api_batch = <<>>
    /\ p_idx = 0
    /\ batch_buffer = <<>>
    /\ total_fetched = 0
    /\ p_normalized = 0
    /\ p_requested = <<>>
    /\ p_progress = <<>>
    /\ p_batch_raised = 0
    /\ db_faults = 0
    /\ p_raised = ""
    /\ p_submitted = <<>>
    /\ p_initial_table = <<>>

SchedIdle ==
    /\ j_kind = <<>>
    /\ j_stage = <<>>
    /\ j_calls = <<>>

PoolIdle ==
    /\ pool = 0
    /\ created = 0
    /\ closed = {}
    /\ tpc = <<>>
    /\ t_call = <<>>
    /\ t_pool = <<>>
    /\ t_calls = <<>>
    /\ t_raised = <<>>

FetchIdle ==
    /\ fpc = "idle"
    /\ f_batch_size = 1
    /\ f_where = FALSE
    /\ f_callback = FALSE
    /\ f_offset = 0
    /\ f_estimated_total = 0
    /\ f_batch = <<>>
    /\ f_yielded = <<>>
    /\ f_log = <<>>

(***************************************************************************)
(* BulkFMCSAFetcher                                                        *)
(***************************************************************************)
\* bounds of the model
MaxBulkRecords == 21      \* the source holds 0..MaxBulkRecords records
MaxRestarts == 2          \* crashes / new invocations explored

\* self.batch_size = 50000, scaled down
bulk_batch_size == 2
\* "Save checkpoint every 10 batches"
CHECKPOINT_EVERY == 10
\* get_total_count's fallback estimate 2200000, scaled down: any value above
\* MaxBulkRecords + 3 * bulk_batch_size behaves like it
FALLBACK_COUNT == 2200000
\* fetch_batch: max_retries = 3
BULK_MAX_RETRIES == 3
\* fetch_all: consecutive_empty >= 3
EMPTY_LIMIT == 3

\* A file: absent, torn (opened for writing and truncated, not yet written), or
\* written with its content.
NoFile == [state |-> "absent", data |-> <<>>]
Torn == [state |-> "torn", data |-> <<>>]
Written(d) == [state |-> "ok", data |-> d]

\* The static source, ordered by dot_number: record i is the integer i.
Source == [i \in 1..src_len |-> i]

\* What the remote answers to $limit = bulk_batch_size, $offset = off.
RemotePage(off) ==
    IF off >= src_len THEN <<>>
    ELSE SubSeq(Source, off + 1, Min(off + bulk_batch_size, src_len))

AttemptOutcomes == {"200", "429", "500", "timeout"}

\* fetch_batch(session, offset): outs[a] is what attempt a meets.
RECURSIVE bulk_fetch_from(_, _, _)
bulk_fetch_from(off, outs, a) ==
    IF a > BULK_MAX_RETRIES THEN <<>>
    ELSE CASE outs[a] = "200" -> RemotePage(off)
           [] outs[a] = "429" -> bulk_fetch_from(off, outs, a + 1)
           [] outs[a] = "500" -> <<>>
           [] OTHER -> bulk_fetch_from(off, outs, a + 1)

bulk_fetch_batch(off, outs) == bulk_fetch_from(off, outs, 1)

\* load_checkpoint: (offset, total_fetched); 0, 0 when absent or unreadable.
load_checkpoint ==
    IF checkpoint_file.state # "ok" THEN <<0, 0>>
    ELSE <<checkpoint_file.data[1], checkpoint_file.data[2]>>

\* the files fetch_all reads back: i in range(start_offset // batch_size)
PreviousFiles(so) == {i \in 0..((so \div bulk_batch_size) - 1) : batch_files[i] # NoFile}

\* mutant: reads one batch file more than the checkpoint covers
RECURSIVE LoadPreviousOneMore(_, _)
LoadPreviousOneMore(i, so) ==
    IF i > so \div bulk_batch_size THEN <<>>
    ELSE (IF batch_files[i] = NoFile THEN <<>> ELSE batch_files[i].data)
         \o LoadPreviousOneMore(i + 1, so)

RECURSIVE LoadPrevious(_, _)
LoadPrevious(i, so) ==
    IF i >= so \div bulk_batch_size THEN <<>>
    ELSE (IF batch_files[i] = NoFile THEN <<>> ELSE batch_files[i].data)
         \o LoadPrevious(i + 1, so)

CheckpointDue(bn) == bn % CHECKPOINT_EVERY = 0

BatchNums == 0..((MaxBulkRecords \div bulk_batch_size) + 2)

BulkLocalsReset ==
    /\ carriers = <<>>
    /\ batch = <<>>
    /\ start_offset = 0
    /\ b_total_fetched = 0
    /\ total_count = 0
    /\ offset = 0
    /\ batch_num = 0
    /\ consecutive_empty = 0
    /\ requested = {}

BulkInit ==
    /\ src_len \in 0..MaxBulkRecords
    /\ checkpoint_file = NoFile
    /\ batch_files = [i \in BatchNums |-> NoFile]
    /\ all_carriers_json = NoFile
    /\ bpc = "start"
    /\ BulkLocalsReset
    /\ durable = 0
    /\ restarts = 0
    /\ torn_crash = FALSE
    /\ NormIdle
    /\ StoreIdle
    /\ LoadIdle
    /\ ClientIdle
    /\ PipeIdle
    /\ FetchIdle
    /\ PoolIdle
    /\ SchedIdle

\* fetch_all, lines 109-138: read the checkpoint, reload the batch files it
\* covers, ask for the total count.
BulkStart ==
    /\ UNCHANGED bulkOthers
    /\ bpc = "start"
    /\ LET cp == load_checkpoint
           so == cp[1]
       IN /\ start_offset' = so
          /\ b_total_fetched' = cp[2]
          /\ IF so > 0 /\ \E i \in PreviousFiles(so) : batch_files[i] = Torn
             THEN \* json.load raises, fetch_all dies
                  /\ bpc' = "raised"
                  /\ UNCHANGED <<carriers, total_count, offset, batch_num>>
             ELSE /\ carriers' = (IF so > 0 THEN LoadPrevious(0, so) ELSE <<>>)
                  /\ \E tc \in {src_len, FALLBACK_COUNT} : total_count' = tc
                  /\ offset' = so
                  /\ batch_num' = so \div bulk_batch_size
                  /\ bpc' = "loop"
    /\ consecutive_empty' = 0
    /\ UNCHANGED <<src_len, checkpoint_file, batch_files, all_carriers_json,
                   batch, requested, durable, restarts, torn_crash>>

\* while offset < total_count: batch = await self.fetch_batch(session, offset)
BulkFetch ==
    /\ UNCHANGED bulkOthers
    /\ bpc = "loop"
    /\ offset < total_count
    /\ \E b \in {bulk_fetch_batch(offset, outs) :
                    outs \in [1..BULK_MAX_RETRIES -> AttemptOutcomes]} :
         /\ batch' = b
         /\ IF b = <<>>
            THEN /\ consecutive_empty' = consecutive_empty + 1
                 /\ bpc' = IF consecutive_empty + 1 >= EMPTY_LIMIT
                           THEN "final" ELSE "loop"
            ELSE /\ consecutive_empty' = 0
                 /\ bpc' = "save_file"
    /\ requested' = requested \cup {offset}
    /\ UNCHANGED <<src_len, checkpoint_file, batch_files, all_carriers_json,
                   carriers, start_offset, b_total_fetched, total_count,
                   offset, batch_num, durable, restarts, torn_crash>>

\* the while condition fails
BulkLoopExit ==
    /\ UNCHANGED bulkOthers
    /\ bpc = "loop"
    /\ ~(offset < total_count)
    /\ bpc' = "final"
    /\ UNCHANGED <<src_len, checkpoint_file, batch_files, all_carriers_json,
                   carriers, batch, start_offset, b_total_fetched, total_count,
                   offset, batch_num, consecutive_empty, requested, durable,
                   restarts, torn_crash>>

\* save_batch_to_file: open(filename, 'w') truncates the file ...
BulkOpenBatchFile ==
    /\ UNCHANGED bulkOthers
    /\ bpc = "save_file"
    /\ batch_files' = [batch_files EXCEPT ![batch_num] = Torn]
    /\ bpc' = "dump_file"
    /\ UNCHANGED <<src_len, checkpoint_file, all_carriers_json, carriers, batch,
                   start_offset, b_total_fetched, total_count, offset,
                   batch_num, consecutive_empty, requested, durable, restarts, torn_crash>>

\* ... json.dump(batch, f); then self.carriers.extend(batch),
\* total_fetched += len(batch)
BulkSaveBatch ==
    /\ UNCHANGED bulkOthers
    /\ bpc = "dump_file"
    /\ batch_files' = [batch_files EXCEPT ![batch_num] = Written(batch)]
    /\ carriers' = carriers \o batch
    /\ b_total_fetched' = b_total_fetched + Len(batch)
    /\ durable' = Max(durable, batch_num + 1)
    /\ bpc' = IF CheckpointDue(batch_num) THEN "save_ckpt" ELSE "advance"
    /\ UNCHANGED <<src_len, checkpoint_file, all_carriers_json, batch,
                   start_offset, total_count, offset, batch_num,
                   consecutive_empty, requested, restarts, torn_crash>>

\* save_checkpoint: open(self.checkpoint_file, 'wb') truncates the file ...
BulkOpenCheckpoint ==
    /\ UNCHANGED bulkOthers
    /\ bpc = "save_ckpt"
    /\ checkpoint_file' = Torn
    /\ bpc' = "dump_ckpt"
    /\ UNCHANGED <<src_len, batch_files, all_carriers_json, carriers, batch,
                   start_offset, b_total_fetched, total_count, offset,
                   batch_num, consecutive_empty, requested, durable, restarts, torn_crash>>

\* mutant: the cursor is one batch too far
CheckpointCursorSkips == offset + 2 * bulk_batch_size

\* the cursor save_checkpoint is called with
CheckpointCursor == offset + bulk_batch_size

\* ... pickle.dump(checkpoint, f)
BulkSaveCheckpoint ==
    /\ UNCHANGED bulkOthers
    /\ bpc = "dump_ckpt"
    /\ checkpoint_file' = Written(<<CheckpointCursor, b_total_fetched>>)
    /\ bpc' = "advance"
    /\ UNCHANGED <<src_len, batch_files, all_carriers_json, carriers, batch,
                   start_offset, b_total_fetched, total_count, offset,
                   batch_num, consecutive_empty, requested, durable, restarts, torn_crash>>

\* offset += self.batch_size; batch_num += 1
BulkAdvance ==
    /\ UNCHANGED bulkOthers
    /\ bpc = "advance"
    /\ offset' = offset + bulk_batch_size
    /\ batch_num' = batch_num + 1
    /\ bpc' = "loop"
    /\ UNCHANGED <<src_len, checkpoint_file, batch_files, all_carriers_json,
                   carriers, batch, start_offset, b_total_fetched, total_count,
                   consecutive_empty, requested, durable, restarts, torn_crash>>

\* "Final save": json.dump(self.carriers, f)
BulkFinalSave ==
    /\ UNCHANGED bulkOthers
    /\ bpc = "final"
    /\ all_carriers_json' = Written(carriers)
    /\ bpc' = "cleanup"
    /\ UNCHANGED <<src_len, checkpoint_file, batch_files, carriers, batch,
                   start_offset, b_total_fetched, total_count, offset,
                   batch_num, consecutive_empty, requested, durable, restarts, torn_crash>>

\* "Clean up checkpoint": os.remove(self.checkpoint_file) when it exists
BulkCleanup ==
    /\ UNCHANGED bulkOthers
    /\ bpc = "cleanup"
    /\ checkpoint_file' = NoFile
    /\ durable' = 0
    /\ torn_crash' = FALSE
    /\ bpc' = "done"
    /\ UNCHANGED <<src_len, batch_files, all_carriers_json, carriers, batch,
                   start_offset, b_total_fetched, total_count, offset,
                   batch_num, consecutive_empty, requested, restarts>>

\* The process dies at any point before it has ended, and the script is run
\* again: memory is lost, the files stay.
BulkRestart ==
    /\ UNCHANGED bulkOthers
    /\ bpc \notin {"start", "done"}
    /\ restarts < MaxRestarts
    /\ restarts' = restarts + 1
    /\ bpc' = "start"
    /\ carriers' = <<>>
    /\ batch' = <<>>
    /\ start_offset' = 0
    /\ b_total_fetched' = 0
    /\ total_count' = 0
    /\ offset' = 0
    /\ batch_num' = 0
    /\ consecutive_empty' = 0
    /\ requested' = {}
    /\ torn_crash' = (torn_crash \/ checkpoint_file.state = "torn")
    /\ UNCHANGED <<src_len, checkpoint_file, batch_files, all_carriers_json,
                   durable>>

BulkNext ==
    \/ BulkStart
    \/ BulkFetch
    \/ BulkLoopExit
    \/ BulkOpenBatchFile
    \/ BulkSaveBatch
    \/ BulkOpenCheckpoint
    \/ BulkSaveCheckpoint
    \/ BulkAdvance
    \/ BulkFinalSave
    \/ BulkCleanup
    \/ BulkRestart

SpecBulk == BulkInit /\ [][BulkNext]_vars

\* batches the readable checkpoint covers
CoveredBatches ==
    IF checkpoint_file.state = "ok"
    THEN checkpoint_file.data[1] \div bulk_batch_size ELSE 0

(* C1: a process restarted from the checkpoint at cursor start_offset requests
   only offsets at or after it, never trips over a half-written batch file,
   and the data it ends with is the source's records up to where it stopped,
   each once and in order: what one uninterrupted run from offset 0 that stops
   at the same place produces (the whole source when it stops at its end). *)
C1_ResumeCorrect ==
    /\ \A o \in requested : o >= start_offset
    /\ bpc # "raised"
    /\ bpc \in {"cleanup", "done"} =>
          all_carriers_json = Written(SubSeq(Source, 1, Min(offset, src_len)))
    /\ bpc \notin {"start", "raised"} =>
          carriers = SubSeq(Source, 1, Min(offset + (IF bpc \in {"save_ckpt", "dump_ckpt", "advance"}
                                                    THEN bulk_batch_size ELSE 0), src_len))

\* a resumed process has fetched the rest and ended with the whole source
C1_Witness ==
    /\ bpc = "done"
    /\ restarts >= 1
    /\ start_offset > 0
    /\ src_len > start_offset
    /\ requested # {}
    /\ all_carriers_json = Written(Source)

(* C2 as stated: whenever the next page is about to be fetched, the persisted
   checkpoint covers every batch saved so far, so that at most one saved batch
   is not covered by it. *)
C2_CheckpointAfterEveryBatch ==
    /\ (bpc = "loop" /\ offset > 0) =>
          checkpoint_file = Written(<<offset, b_total_fetched>>)
    /\ durable - CoveredBatches <= 1

(* C2 amended: the checkpoint is written after the batch file (it never covers
   a batch whose file is not completely written), only after batches whose
   number is a multiple of CHECKPOINT_EVERY, and unless a crash interrupted
   the checkpoint write itself, at most CHECKPOINT_EVERY saved batches are
   not covered by it. *)
C2_CheckpointEveryTen ==
    /\ checkpoint_file.state = "ok" =>
          /\ checkpoint_file.data[1] % bulk_batch_size = 0
          /\ CoveredBatches >= 1
          /\ CheckpointDue(CoveredBatches - 1)
          /\ \A i \in 0..(CoveredBatches - 1) :
                batch_files[i] = Written(RemotePage(i * bulk_batch_size))
    /\ (checkpoint_file.state # "torn" /\ ~torn_crash) =>
          durable - CoveredBatches <= CHECKPOINT_EVERY

\* ten saved batches wait for the second checkpoint
C2_Witness ==
    /\ bpc = "save_ckpt"
    /\ checkpoint_file.state = "ok"
    /\ durable - CoveredBatches = CHECKPOINT_EVERY

(* C3: the checkpoint is removed only when the run has reached the end of the
   source; a run that stops early leaves it in place. *)
C3_CheckpointKeptOnEarlyStop ==
    [][(checkpoint_file.state = "ok" /\ checkpoint_file'.state = "absent")
          => offset >= src_len]_vars

\* the bulk fetcher is not running
BulkIdle ==
    /\ src_len = 0
    /\ checkpoint_file = NoFile
    /\ batch_files = [i \in BatchNums |-> NoFile]
    /\ all_carriers_json = NoFile
    /\ bpc = "idle"
    /\ BulkLocalsReset
    /\ durable = 0
    /\ restarts = 0
    /\ torn_crash = FALSE

(***************************************************************************)
(* normalize applied to one raw record                                     *)
(***************************************************************************)
MaxRawInt == 2            \* integer raw values range over -MaxRawInt..MaxRawInt

\* raw values the API (or a caller) can hand over for the natural key
KeyValues ==
    {Absent, None} \cup {IntVal(n) : n \in (0 - MaxRawInt)..MaxRawInt}
                   \cup {Str(s) : s \in KeyStrings}

\* raw values of any other field
FieldValues ==
    {Absent, None, Bool(TRUE), Bool(FALSE)}
        \cup {IntVal(n) : n \in (0 - MaxRawInt)..MaxRawInt}
        \cup {Str(s) : s \in FieldStrings}

\* one raw field of every kind _clean_value distinguishes, one cargo field
\* and one field normalize does not map
OtherFields == {"legal_name", "power_units", "liability_required_amount",
                "mcs_150_date", "hazmat_flag", "phy_state", "phy_zip",
                "telephone", "email_address", "cargo_carried_1", "carrier_id"}

\* the raw record with the given natural key and one other field
RawRecord(key, field, value) ==
    [f \in (IF key = Absent THEN {} ELSE {"usdot_number"})
             \cup (IF value = Absent THEN {} ELSE {field}) |->
        IF f = "usdot_number" THEN key ELSE value]

\* every key with one other field of every kind and value
RawRecords ==
    {RawRecord(key, field, value) :
        key \in KeyValues, field \in OtherFields, value \in FieldValues}

NormInit ==
    /\ npc = "call"
    /\ n_raw \in RawRecords
    /\ n_result = None
    /\ BulkIdle
    /\ StoreIdle
    /\ LoadIdle
    /\ ClientIdle
    /\ PipeIdle
    /\ FetchIdle
    /\ PoolIdle
    /\ SchedIdle

\* normalized = CarrierDataNormalizer.normalize(record)
Normalize ==
    /\ npc = "call"
    /\ n_result' = normalize(n_raw)
    /\ npc' = "done"
    /\ UNCHANGED n_raw
    /\ UNCHANGED normOthers

NormNext == Normalize

SpecNorm == NormInit /\ [][NormNext]_vars

\* the natural key of a raw record read as an integer, or None when the
\* record has no key or the key is no integer
NaturalKey(record) ==
    IF "usdot_number" \notin DOMAIN record THEN None
    ELSE LET v == record["usdot_number"]
         IN IF v[1] = "int" THEN v
            ELSE IF IsStr(v) /\ ~IsRaise(PyInt(v)) THEN PyInt(v)
            ELSE None

PositiveKey(record) == NaturalKey(record) # None /\ NaturalKey(record)[2] > 0

\* C8: normalize raises for every raw record whose natural key is missing,
\* empty, not an integer, zero or negative; no such record is returned as a
\* normalized record.
C8_BadKeyRaises ==
    (npc = "done" /\ ~PositiveKey(n_raw)) => IsRaise(n_result)

\* C9: normalize never raises for a raw record with a positive natural key,
\* whatever the other fields contain.
C9_PositiveKeyNeverRaises ==
    (npc = "done" /\ PositiveKey(n_raw)) => ~IsRaise(n_result)

(***************************************************************************)
(* IngestionPipeline._process_batch and the carriers table                 *)
(* (src/fmcsa_system/ingestion/ingestion_pipeline.py, lines 468-568)       *)
(*                                                                         *)
(* The table is a sequence of rows; usdot_number is its primary key.  One   *)
(* statement is atomic: it changes the table completely or, when it         *)
(* raises, not at all.                                                      *)
(***************************************************************************)
\* columns = [...]
COLUMNS == {"usdot_number", "legal_name", "dba_name",
            "physical_address", "physical_city", "physical_state", "physical_zip",
            "physical_country",
            "mailing_address", "mailing_city", "mailing_state", "mailing_zip",
            "telephone", "fax", "email",
            "mcs_150_date", "mcs_150_mileage", "entity_type", "operating_status",
            "out_of_service_date",
            "power_units", "drivers", "carrier_operation", "cargo_carried",
            "liability_insurance_date", "liability_insurance_amount",
            "cargo_insurance_date", "cargo_insurance_amount",
            "bond_insurance_date", "bond_insurance_amount",
            "hazmat_flag", "hazmat_placardable",
            "safety_rating", "safety_rating_date", "safety_review_date",
            "raw_data"}

\* ON CONFLICT (usdot_number) DO UPDATE SET c = EXCLUDED.c, for these c
EXCLUDED_COLUMNS == {"legal_name", "dba_name", "physical_address", "physical_city",
                     "physical_state", "entity_type", "operating_status",
                     "power_units", "drivers", "liability_insurance_date",
                     "liability_insurance_amount", "raw_data"}

\* if len(records) > 100: COPY, else INSERT ... ON CONFLICT; the threshold
\* is scaled down from 100
COPY_THRESHOLD == 2

\* row.append(record.get(col)) for col in columns
ValuesRow(record) ==
    [c \in COLUMNS |-> IF c \in DOMAIN record THEN record[c] ELSE None]

\* the row the table stores for proposed values written at time now
NewRow(values, now) ==
    [c \in COLUMNS \cup {"updated_at"} |-> IF c = "updated_at" THEN now ELSE values[c]]

\* DO UPDATE SET ...: the existing row after the update
DoUpdate(row, excluded, now) ==
    [c \in COLUMNS \cup {"updated_at"} |->
        IF c = "updated_at" THEN now
        ELSE IF c \in EXCLUDED_COLUMNS THEN excluded[c]
        ELSE row[c]]

\* mutant: no row is ever in conflict with a proposed row
NoConflict(table, key) == {}

\* the rows of the table that hold the key of a proposed row
Conflict(table, key) == {i \in DOMAIN table : table[i]["usdot_number"] = key}

StatementError(e) == [ok |-> FALSE, error |-> e, table |-> <<>>, count |-> 0]

\* INSERT INTO carriers VALUES rows[i..] ON CONFLICT (usdot_number) DO UPDATE:
\* touched holds the keys this statement has already inserted or updated
RECURSIVE InsertOnConflict(_, _, _, _, _)
InsertOnConflict(table, rows, i, touched, now) ==
    IF i > Len(rows) THEN [ok |-> TRUE, error |-> "", table |-> table, count |-> Len(rows)]
    ELSE IF rows[i]["usdot_number"] = None THEN StatementError("NotNullViolation")
    ELSE IF Conflict(table, rows[i]["usdot_number"]) = {}
         THEN InsertOnConflict(Append(table, NewRow(rows[i], now)), rows, i + 1,
                               touched \cup {rows[i]["usdot_number"]}, now)
    ELSE IF rows[i]["usdot_number"] \in touched
         THEN StatementError("CardinalityViolation")
    ELSE InsertOnConflict(
            [j \in DOMAIN table |->
                IF j \in Conflict(table, rows[i]["usdot_number"])
                THEN DoUpdate(table[j], rows[i], now) ELSE table[j]],
            rows, i + 1, touched \cup {rows[i]["usdot_number"]}, now)

\* conn.copy_records_to_table('carriers', records=values, columns=columns)
RECURSIVE CopyRecords(_, _, _, _)
CopyRecords(table, rows, i, now) ==
    IF i > Len(rows) THEN [ok |-> TRUE, error |-> "", table |-> table, count |-> Len(rows)]
    ELSE IF rows[i]["usdot_number"] = None THEN StatementError("NotNullViolation")
    ELSE IF Conflict(table, rows[i]["usdot_number"]) # {}
         THEN StatementError("UniqueViolation")
    ELSE CopyRecords(Append(table, NewRow(rows[i], now)), rows, i + 1, now)

\* the status conn.execute returns for an INSERT, split on blanks: the
\* count covers the rows inserted and the rows updated by DO UPDATE
CommandTag(count) == <<"INSERT", 0, count>>

\* parts[0] == 'INSERT': total_inserted += int(parts[2])
TagInserted(parts) == IF parts[1] = "INSERT" THEN parts[3] ELSE 0
\* parts[0] == 'UPDATE': total_updated += int(parts[1])
TagUpdated(parts) ==
    IF parts[1] = "INSERT" THEN 0 ELSE IF parts[1] = "UPDATE" THEN parts[2] ELSE 0

\* what _process_batch does to the table and to self.stats once the store
\* has answered with result; raised is the exception it re-raises
BatchOutcome(table, records, result, fast) ==
    IF ~result.ok
    THEN [table |-> table, inserted |-> 0, updated |-> 0,
          errors |-> Len(records), raised |-> result.error]
    ELSE [table |-> result.table,
          inserted |-> IF fast THEN Len(records) ELSE TagInserted(CommandTag(result.count)),
          updated |-> IF fast THEN 0 ELSE TagUpdated(CommandTag(result.count)),
          errors |-> 0, raised |-> ""]

RowsOf(records) == [i \in DOMAIN records |-> ValuesRow(records[i])]

\* line 513: the statement _process_batch writes a batch with
PathOf(records) == IF Len(records) > COPY_THRESHOLD THEN "copy" ELSE "insert"

\* _process_batch(records): the new table, the amounts added to
\* total_inserted, total_updated and total_errors, and the exception raised;
\* up says whether db_pool.acquire() and the statement reach the database
process_batch(table, records, now, up) ==
    IF records = <<>>
    THEN [table |-> table, inserted |-> 0, updated |-> 0, errors |-> 0, raised |-> ""]
    ELSE IF ~up
    THEN BatchOutcome(table, records, StatementError("ConnectionError"), FALSE)
    ELSE IF PathOf(records) = "copy"
    THEN BatchOutcome(table, records, CopyRecords(table, RowsOf(records), 1, now), TRUE)
    ELSE BatchOutcome(table, records,
                      InsertOnConflict(table, RowsOf(records), 1, {}, now), FALSE)

(***************************************************************************)
(* One batch loaded twice into a table                                     *)
(***************************************************************************)
MaxKey == 2               \* natural keys range over 1..MaxKey
\* the longest batch handed to _process_batch: the shortest that takes COPY
MaxBatchLen == COPY_THRESHOLD + 1
MaxLoads == 2             \* the batch is loaded once and once more

\* two versions of a carrier's data
DataVersions == {Str(<<"a">>), Str(<<"b">>)}

\* a normalized record: the columns DO UPDATE writes hold vu, the others vo
LoadRecord(key, vu, vo) ==
    [c \in COLUMNS |->
        IF c = "usdot_number" THEN key
        ELSE IF c \in EXCLUDED_COLUMNS THEN vu ELSE vo]

\* the records a batch is made of; a record whose key normalize left None
\* is one of them
LoadRecords ==
    {LoadRecord(key, v, v) :
        key \in {None} \cup {IntVal(k) : k \in 1..MaxKey}, v \in DataVersions}

Batches == UNION {[1..n -> LoadRecords] : n \in 0..MaxBatchLen}

\* the table holding, for every key k of keys, the row of versions[k]
RECURSIVE TableOf(_, _, _)
TableOf(keys, versions, k) ==
    IF k > MaxKey THEN <<>>
    ELSE (IF k \in keys
          THEN <<NewRow(LoadRecord(IntVal(k), versions[k][1], versions[k][2]), 0)>>
          ELSE <<>>)
         \o TableOf(keys, versions, k + 1)

\* every table with at most one row per key
Tables ==
    {TableOf(keys, versions, 1) :
        keys \in SUBSET (1..MaxKey),
        versions \in [1..MaxKey -> DataVersions \X DataVersions]}

LoadInit ==
    /\ lpc = "load"
    /\ carriers_table \in Tables
    /\ l_records \in Batches
    /\ total_inserted = 0
    /\ total_updated = 0
    /\ total_errors = 0
    /\ db_clock = 1
    /\ loads = 0
    /\ l_raised = <<>>
    /\ table_init = carriers_table
    /\ table_once = carriers_table
    /\ BulkIdle
    /\ NormIdle
    /\ ClientIdle
    /\ PipeIdle
    /\ FetchIdle
    /\ PoolIdle
    /\ SchedIdle

\* await self._process_batch(records), the database being reachable: the
\* statistics and the table after it
LoadBatch ==
    /\ lpc = "load"
    /\ loads < MaxLoads
    /\ LET r == process_batch(carriers_table, l_records, db_clock, TRUE)
       IN /\ carriers_table' = r.table
          /\ total_inserted' = total_inserted + r.inserted
          /\ total_updated' = total_updated + r.updated
          /\ total_errors' = total_errors + r.errors
          /\ l_raised' = Append(l_raised, r.raised)
          /\ table_once' = (IF loads = 0 THEN r.table ELSE table_once)
    /\ db_clock' = db_clock + 1
    /\ loads' = loads + 1
    /\ UNCHANGED <<lpc, l_records, table_init>>
    /\ UNCHANGED loadOthers

LoadNext == LoadBatch

SpecLoad == LoadInit /\ [][LoadNext]_vars

\* the rows of a table without the bookkeeping column updated_at
Canonical(table) == {[c \in COLUMNS |-> table[i][c]] : i \in DOMAIN table}

OneRowPerKey(table) ==
    \A i, j \in DOMAIN table :
        table[i]["usdot_number"] = table[j]["usdot_number"] => i = j

\* both loads went through the INSERT ... ON CONFLICT path
SafePathTwice ==
    /\ loads = MaxLoads
    /\ l_records # <<>>
    /\ Len(l_records) <= COPY_THRESHOLD

\* C4: for every batch of at most COPY_THRESHOLD records and every initial
\* table, loading the batch twice through INSERT ... ON CONFLICT leaves the
\* same rows (one per natural key, same values in every column the loader
\* writes) as loading it once.
C4_SafePathIdempotent ==
    SafePathTwice =>
        /\ Canonical(carriers_table) = Canonical(table_once)
        /\ Len(carriers_table) = Len(table_once)
        /\ OneRowPerKey(carriers_table)

\* a batch that inserted one row and updated another one, loaded twice
C4_Witness ==
    /\ SafePathTwice
    /\ l_raised = <<"", "">>
    /\ Len(table_once) = Len(table_init) + 1
    /\ Canonical(table_once) \cap Canonical(table_init) = {}
    /\ table_init # <<>>

\* the keys of the batch are distinct and none is in the initial table
AllKeysNew ==
    /\ \A i, j \in DOMAIN l_records :
          l_records[i]["usdot_number"] = l_records[j]["usdot_number"] => i = j
    /\ \A i \in DOMAIN l_records :
          /\ l_records[i]["usdot_number"] # None
          /\ Conflict(table_init, l_records[i]["usdot_number"]) = {}

\* C5: loading n records whose keys are all absent adds n to inserted and 0
\* to updated; loading the same n records again adds 0 to inserted and n to
\* updated.
C5_CountsInsertsAndUpdates ==
    (SafePathTwice /\ AllKeysNew /\ l_raised = <<"", "">>) =>
        /\ total_inserted = Len(l_records)
        /\ total_updated = Len(l_records)

(***************************************************************************)
(* FMCSAClient.fetch_batch (src/fmcsa_system/ingestion/fmcsa_client.py)    *)
(***************************************************************************)
MaxRetriesBound == 3      \* max_retries ranges over 0..MaxRetriesBound
MaxRemote == 4            \* the remote dataset holds 0..MaxRemote records
MaxLimit == 4             \* the limit asked for ranges over 1..MaxLimit

\* MAX_RECORDS_PER_REQUEST, scaled down from 50000
MAX_RECORDS_PER_REQUEST == 2
\* retry_delay and retry_backoff
RETRY_DELAY == 1
RETRY_BACKOFF == 2
\* the Retry-After the client assumes when the header is missing
DEFAULT_RETRY_AFTER == 60

\* what one client.get can end in: a 200 response, a 429 response, a
\* timeout, a 5xx status, another 4xx status, any other exception
\* (connection error, invalid JSON)
Responses == {"200", "429", "timeout", "5xx", "4xx", "error"}
Transient == {"timeout", "5xx", "error"}

\* limit = min(limit, self.MAX_RECORDS_PER_REQUEST)
ClampedLimit(limit) == Min(limit, MAX_RECORDS_PER_REQUEST)

\* the records the service holds, ordered by usdot_number
RemoteData == [i \in 1..remote_len |-> i]

\* response.json() of a 200 response to $limit and $offset
ResponseData(limit, off) ==
    SubSeq(RemoteData, off + 1, Min(off + limit, remote_len))

RECURSIVE Power(_, _)
Power(b, e) == IF e = 0 THEN 1 ELSE b * Power(b, e - 1)

\* delay = self.retry_delay * (self.retry_backoff ** attempt)
BackoffDelay(a) == RETRY_DELAY * Power(RETRY_BACKOFF, a)

\* mutant: the loop makes one attempt more
InRangeOneMore(a) == a <= max_retries

\* for attempt in range(self.max_retries)
InRange(a) == a < max_retries

ClientInit ==
    /\ max_retries \in 0..MaxRetriesBound
    /\ remote_len \in 0..MaxRemote
    /\ c_limit \in 1..MaxLimit
    /\ c_offset \in 0..MaxRemote
    /\ cpc = "for"
    /\ attempt = 0
    /\ c_response = ""
    /\ c_outcomes = <<>>
    /\ c_requests = 0
    /\ c_slept = <<>>
    /\ c_result = <<>>
    /\ stats_total_requests = 0
    /\ stats_total_records = 0
    /\ stats_failed_requests = 0
    /\ BulkIdle
    /\ NormIdle
    /\ StoreIdle
    /\ LoadIdle
    /\ PipeIdle
    /\ FetchIdle
    /\ PoolIdle
    /\ SchedIdle

\* for attempt in range(self.max_retries): response = await client.get(...)
ClientGet ==
    /\ cpc = "for"
    /\ InRange(attempt)
    /\ \E r \in Responses : /\ c_response' = r
                            /\ c_outcomes' = Append(c_outcomes, r)
    /\ c_requests' = c_requests + 1
    /\ cpc' = "response"
    /\ UNCHANGED <<max_retries, remote_len, c_limit, c_offset, attempt, c_slept,
                   c_result, stats_total_requests, stats_total_records,
                   stats_failed_requests>>
    /\ UNCHANGED clientOthers

\* the loop is exhausted: failed_requests += 1; raise Exception("Failed to
\* fetch data after ... attempts")
ClientExhausted ==
    /\ cpc = "for"
    /\ ~InRange(attempt)
    /\ stats_failed_requests' = stats_failed_requests + 1
    /\ cpc' = "raised"
    /\ UNCHANGED <<max_retries, remote_len, c_limit, c_offset, attempt, c_response,
                   c_outcomes, c_requests, c_slept, c_result,
                   stats_total_requests, stats_total_records>>
    /\ UNCHANGED clientOthers

\* status 200: count the request and the records, return data
ClientReturn ==
    /\ cpc = "response"
    /\ c_response = "200"
    /\ stats_total_requests' = stats_total_requests + 1
    /\ c_result' = ResponseData(ClampedLimit(c_limit), c_offset)
    /\ stats_total_records' = stats_total_records + Len(c_result')
    /\ cpc' = "returned"
    /\ UNCHANGED <<max_retries, remote_len, c_limit, c_offset, attempt, c_response,
                   c_outcomes, c_requests, c_slept, stats_failed_requests>>
    /\ UNCHANGED clientOthers

\* status 429: sleep Retry-After seconds, continue with the next attempt
ClientRateLimited ==
    /\ cpc = "response"
    /\ c_response = "429"
    /\ \E retry_after \in {1, DEFAULT_RETRY_AFTER} :
          c_slept' = Append(c_slept, <<"retry_after", retry_after>>)
    /\ attempt' = attempt + 1
    /\ cpc' = "for"
    /\ UNCHANGED <<max_retries, remote_len, c_limit, c_offset, c_response,
                   c_outcomes, c_requests, c_result, stats_total_requests,
                   stats_total_records, stats_failed_requests>>
    /\ UNCHANGED clientOthers

\* except httpx.TimeoutException, and HTTPStatusError with a status >= 500:
\* fall through to the delay
ClientTransient ==
    /\ cpc = "response"
    /\ c_response \in {"timeout", "5xx"}
    /\ cpc' = "delay"
    /\ UNCHANGED <<max_retries, remote_len, c_limit, c_offset, attempt, c_response,
                   c_outcomes, c_requests, c_slept, c_result,
                   stats_total_requests, stats_total_records,
                   stats_failed_requests>>
    /\ UNCHANGED clientOthers

\* HTTPStatusError with a status below 500: failed_requests += 1; raise
ClientError4xx ==
    /\ cpc = "response"
    /\ c_response = "4xx"
    /\ stats_failed_requests' = stats_failed_requests + 1
    /\ cpc' = "raised"
    /\ UNCHANGED <<max_retries, remote_len, c_limit, c_offset, attempt, c_response,
                   c_outcomes, c_requests, c_slept, c_result,
                   stats_total_requests, stats_total_records>>
    /\ UNCHANGED clientOthers

\* except Exception: failed_requests += 1; raise on the last attempt
ClientException ==
    /\ cpc = "response"
    /\ c_response = "error"
    /\ stats_failed_requests' = stats_failed_requests + 1
    /\ cpc' = (IF attempt = max_retries - 1 THEN "raised" ELSE "delay")
    /\ UNCHANGED <<max_retries, remote_len, c_limit, c_offset, attempt, c_response,
                   c_outcomes, c_requests, c_slept, c_result,
                   stats_total_requests, stats_total_records>>
    /\ UNCHANGED clientOthers

\* if attempt < self.max_retries - 1: sleep the backoff delay; next attempt
ClientDelay ==
    /\ cpc = "delay"
    /\ c_slept' = (IF attempt < max_retries - 1
                   THEN Append(c_slept, <<"backoff", BackoffDelay(attempt)>>)
                   ELSE c_slept)
    /\ attempt' = attempt + 1
    /\ cpc' = "for"
    /\ UNCHANGED <<max_retries, remote_len, c_limit, c_offset, c_response,
                   c_outcomes, c_requests, c_result, stats_total_requests,
                   stats_total_records, stats_failed_requests>>
    /\ UNCHANGED clientOthers

ClientNext ==
    \/ ClientGet
    \/ ClientExhausted
    \/ ClientReturn
    \/ ClientRateLimited
    \/ ClientTransient
    \/ ClientError4xx
    \/ ClientException
    \/ ClientDelay

SpecClient == ClientInit /\ [][ClientNext]_vars

\* every attempt so far failed transiently
AllTransient == \A i \in DOMAIN c_outcomes : c_outcomes[i] \in Transient

\* only the last attempt succeeded, the ones before failed transiently
FirstSuccessLast ==
    /\ c_outcomes # <<>>
    /\ c_outcomes[Len(c_outcomes)] = "200"
    /\ \A i \in 1..(Len(c_outcomes) - 1) : c_outcomes[i] \in Transient

\* C10: when every attempt fails transiently (timeout, 5xx, connection
\* error) fetch_batch issues exactly max_retries requests and then raises;
\* when attempt k <= max_retries is the first to succeed it returns the
\* records of that response after exactly k requests.
C10_RetryCeiling ==
    /\ c_requests = Len(c_outcomes)
    /\ c_requests <= max_retries
    /\ AllTransient =>
          /\ cpc # "returned"
          /\ cpc = "raised" => c_requests = max_retries
          /\ (c_requests = max_retries /\ cpc = "for") => ~ENABLED ClientGet
    /\ (FirstSuccessLast /\ cpc \notin {"response"}) =>
          /\ cpc = "returned"
          /\ c_result = ResponseData(ClampedLimit(c_limit), c_offset)

\* three attempts: a timeout, a 5xx status and a connection error, then
\* the terminal error
C10_Witness ==
    /\ cpc = "raised"
    /\ max_retries = 3
    /\ c_outcomes = <<"timeout", "5xx", "error">>
    /\ c_requests = 3

\* C11: 429 responses do not consume the retry ceiling: a call that has met
\* nothing but 429 responses does not raise.
C11_RateLimitNotCounted ==
    (c_outcomes # <<>> /\ \A i \in DOMAIN c_outcomes : c_outcomes[i] = "429") =>
        cpc # "raised"

(***************************************************************************)
(* IngestionPipeline.run_full_ingestion and run_incremental_update         *)
(* (src/fmcsa_system/ingestion/ingestion_pipeline.py, lines 334-466) over  *)
(* FMCSAClient.fetch_all (src/fmcsa_system/ingestion/fmcsa_client.py,      *)
(* lines 162-238)                                                          *)
(***************************************************************************)
MaxStream == 3            \* the service holds 0..MaxStream records
MaxErrorsBound == 2       \* max_errors ranges over 0..MaxErrorsBound
\* self.batch_size ranges over 1..MaxBatchSize: the largest is the shortest
\* batch that takes COPY
MaxBatchSize == COPY_THRESHOLD + 1
DEFAULT_MAX_ERRORS == 100 \* max_errors: int = 100
MaxDbFaults == 1          \* statements that find the database unreachable

\* estimated_total = 2200000
ESTIMATED_TOTAL == 2200000

\* the kinds of raw record the service returns: a carrier with its key, a
\* record without usdot_number, a record whose usdot_number is no number
RecordKinds == {"carrier", "keyless", "badkey"}

\* the raw record at position i of the stream, of kind k; the carriers are
\* ordered by usdot_number
RawOf(k, i) ==
    CASE k = "carrier" -> RawRecord(Str(NatToChars(i)), "legal_name", Absent)
      [] k = "keyless" -> RawRecord(Absent, "legal_name", Str(<<"A", "c", "m", "e">>))
      [] OTHER -> RawRecord(Str(<<"a", "b", "c">>), "legal_name", Absent)

\* the records of the stream from offset off, at most limit of them
StreamPage(limit, off) ==
    [j \in 1..(Min(off + limit, Len(stream)) - Min(off, Len(stream))) |->
        RawOf(stream[off + j], off + j)]

\* the carriers table before the run: empty, or holding carrier 1 already
InitialTables == {<<>>, <<NewRow(LoadRecord(IntVal(1), Str(<<"a">>), Str(<<"a">>)), 0)>>}

PipeInit ==
    /\ ppc = "start"
    /\ mode \in {"full", "incremental"}
    /\ max_errors \in 0..MaxErrorsBound \cup {DEFAULT_MAX_ERRORS}
    /\ batch_size \in 1..MaxBatchSize
    /\ stream \in UNION {[1..n -> RecordKinds] : n \in 0..MaxStream}
    /\ carriers_table \in InitialTables
    /\ p_offset = 0
    /\ estimated_total = 0
    /\ api_batch = <<>>
    /\ p_idx = 0
    /\ batch_buffer = <<>>
    /\ total_fetched = 0
    /\ total_inserted = 0
    /\ total_updated = 0
    /\ total_errors = 0
    /\ db_clock = 1
    /\ p_normalized = 0
    /\ p_requested = <<>>
    /\ p_progress = <<>>
    /\ p_batch_raised = 0
    /\ db_faults = 0
    /\ p_raised = ""
    /\ p_submitted = <<>>
    /\ p_initial_table = carriers_table
    /\ BulkIdle
    /\ NormIdle
    /\ LoadIdle
    /\ ClientIdle
    /\ FetchIdle
    /\ PoolIdle
    /\ SchedIdle

\* the variables a step of the run leaves alone unless it says otherwise
pipeParams == <<mode, max_errors, batch_size, stream, p_initial_table>>

\* fetch_all, lines 183-197: a run with a where clause first asks for the
\* count; fetch_batch returns the count or raises
PipeStart ==
    /\ ppc = "start"
    /\ \/ /\ mode = "full"
          /\ estimated_total' = ESTIMATED_TOTAL
          /\ ppc' = "fetch"
          /\ p_raised' = p_raised
       \/ /\ mode = "incremental"
          /\ estimated_total' = Len(stream)
          /\ ppc' = "fetch"
          /\ p_raised' = p_raised
       \/ /\ mode = "incremental"
          /\ estimated_total' = estimated_total
          /\ ppc' = "raised"
          /\ p_raised' = "FetchError"
    /\ UNCHANGED <<p_offset, api_batch, p_idx, batch_buffer, total_fetched,
                   p_normalized, p_requested, p_progress, p_batch_raised, db_faults, p_submitted>>
    /\ UNCHANGED <<pipeParams, storeVars, pipeOthers>>

\* fetch_all, lines 199-212, and line 364 / 438: fetch_batch returns the
\* page at offset, which is yielded unless it is empty
PipeFetch ==
    /\ UNCHANGED p_raised
    /\ ppc = "fetch"
    /\ p_requested' = Append(p_requested, p_offset)
    /\ api_batch' = StreamPage(ClampedLimit(MAX_RECORDS_PER_REQUEST), p_offset)
    /\ total_fetched' = total_fetched + Len(api_batch')
    /\ p_idx' = 1
    /\ ppc' = (IF api_batch' = <<>> THEN "flush" ELSE "record")
    /\ UNCHANGED <<p_offset, estimated_total, batch_buffer, p_normalized,
                   p_progress, p_batch_raised, db_faults, p_submitted>>
    /\ UNCHANGED <<pipeParams, storeVars, pipeOthers>>

\* fetch_batch raises: the exception leaves fetch_all and the run
PipeFetchRaises ==
    /\ p_raised' = "FetchError"
    /\ ppc = "fetch"
    /\ p_requested' = Append(p_requested, p_offset)
    /\ ppc' = "raised"
    /\ UNCHANGED <<p_offset, estimated_total, api_batch, p_idx, batch_buffer,
                   total_fetched, p_normalized, p_progress, p_batch_raised, db_faults, p_submitted>>
    /\ UNCHANGED <<pipeParams, storeVars, pipeOthers>>

\* mutant: the buffer is handed over one record late
BufferFullLate(n) == n > batch_size

\* line 374 / 445: len(batch_buffer) >= self.batch_size
BufferFull(n) == n >= batch_size

\* mutant: the run stops one error later
BudgetSpentLate(errors) == errors > max_errors

\* if self.stats.total_errors >= self.max_errors
BudgetSpent(errors) == errors >= max_errors

\* mutant: the first error on a record ends the page
AfterErrorHalts(errors) == "flush"

\* where the run goes after an error on a record: run_full_ingestion breaks
\* out of both loops once the budget is spent, run_incremental_update
\* has no such test
AfterError(errors) ==
    IF mode = "full" /\ BudgetSpent(errors) THEN "flush" ELSE "record"

\* lines 370-371: the record is normalized and appended, the buffer is not
\* full yet
PipeRecord ==
    /\ UNCHANGED p_raised
    /\ ppc = "record"
    /\ p_idx <= Len(api_batch)
    /\ ~IsRaise(normalize(api_batch[p_idx]))
    /\ ~BufferFull(Len(batch_buffer) + 1)
    /\ batch_buffer' = Append(batch_buffer, normalize(api_batch[p_idx])[2])
    /\ p_normalized' = p_normalized + 1
    /\ p_idx' = p_idx + 1
    /\ UNCHANGED <<ppc, p_offset, estimated_total, api_batch, total_fetched,
                   p_requested, p_progress, p_batch_raised, db_faults, p_submitted>>
    /\ UNCHANGED <<pipeParams, storeVars, pipeOthers>>

\* whether the next statement reaches the database
Reachable == {TRUE} \cup (IF db_faults < MaxDbFaults THEN {FALSE} ELSE {})

\* a call of _process_batch as the run remembers it: the natural keys of the
\* records, the statement chosen for them and the exception raised
Submission(records, raised) ==
    <<[i \in DOMAIN records |-> records[i]["usdot_number"]], PathOf(records), raised>>

\* lines 374-376: the buffer is full and is handed to _process_batch
PipeRecordBatch ==
    /\ UNCHANGED p_raised
    /\ ppc = "record"
    /\ p_idx <= Len(api_batch)
    /\ ~IsRaise(normalize(api_batch[p_idx]))
    /\ BufferFull(Len(batch_buffer) + 1)
    /\ \E up \in Reachable :
          LET r == process_batch(carriers_table,
                                 Append(batch_buffer, normalize(api_batch[p_idx])[2]),
                                 db_clock, up)
          IN /\ carriers_table' = r.table
             /\ total_inserted' = total_inserted + r.inserted
             /\ total_updated' = total_updated + r.updated
             /\ db_faults' = (IF up THEN db_faults ELSE db_faults + 1)
             /\ p_submitted' = Append(p_submitted,
                    Submission(Append(batch_buffer, normalize(api_batch[p_idx])[2]),
                               r.raised))
             /\ IF r.raised = ""
                THEN /\ batch_buffer' = <<>>
                     /\ total_errors' = total_errors + r.errors
                     /\ p_batch_raised' = p_batch_raised
                     /\ ppc' = "record"
                ELSE \* caught by the except of the record: one more error,
                     \* the buffer keeps its records
                     /\ batch_buffer' = Append(batch_buffer, normalize(api_batch[p_idx])[2])
                     /\ total_errors' = total_errors + r.errors + 1
                     /\ p_batch_raised' = p_batch_raised + 1
                     /\ ppc' = AfterError(total_errors + r.errors + 1)
    /\ db_clock' = db_clock + 1
    /\ p_normalized' = p_normalized + 1
    /\ p_idx' = p_idx + 1
    /\ UNCHANGED <<p_offset, estimated_total, api_batch, total_fetched,
                   p_requested, p_progress>>
    /\ UNCHANGED <<pipeParams, pipeOthers>>

\* lines 378-388 / 449-451: normalize raises
PipeRecordError ==
    /\ UNCHANGED p_raised
    /\ ppc = "record"
    /\ p_idx <= Len(api_batch)
    /\ IsRaise(normalize(api_batch[p_idx]))
    /\ total_errors' = total_errors + 1
    /\ ppc' = AfterError(total_errors + 1)
    /\ p_normalized' = p_normalized + 1
    /\ p_idx' = p_idx + 1
    /\ UNCHANGED <<p_offset, estimated_total, api_batch, batch_buffer, total_fetched,
                   p_requested, p_progress, p_batch_raised, db_faults, p_submitted>>
    /\ UNCHANGED <<carriers_table, total_inserted, total_updated, db_clock>>
    /\ UNCHANGED <<pipeParams, pipeOthers>>

\* mutant: no page is taken for the last one
LastPageNever(page) == FALSE

\* fetch_all, lines 231-232: a page shorter than asked for is the last one
LastPage(page) == Len(page) < ClampedLimit(MAX_RECORDS_PER_REQUEST)

\* the page is processed; lines 390-392: run_full_ingestion stops when the
\* budget is spent.  Otherwise fetch_all resumes, lines 215-235: it moves
\* the offset, reports progress and ends after a short page
PipePageDone ==
    /\ UNCHANGED p_raised
    /\ ppc = "record"
    /\ p_idx > Len(api_batch)
    /\ IF mode = "full" /\ BudgetSpent(total_errors)
       THEN /\ ppc' = "flush"
            /\ UNCHANGED <<p_offset, p_progress>>
       ELSE /\ p_offset' = p_offset + Len(api_batch)
            /\ p_progress' = (IF mode = "full"
                              THEN Append(p_progress, <<p_offset', estimated_total>>)
                              ELSE p_progress)
            /\ ppc' = (IF LastPage(api_batch) THEN "flush" ELSE "fetch")
    /\ UNCHANGED <<estimated_total, api_batch, p_idx, batch_buffer, total_fetched,
                   p_normalized, p_requested, p_batch_raised, db_faults, p_submitted>>
    /\ UNCHANGED <<pipeParams, storeVars, pipeOthers>>

\* lines 394-404 / 453-461: the remaining records are handed to
\* _process_batch, whose exception ends the run; the statistics are returned
PipeFinish ==
    /\ ppc = "flush"
    /\ \E up \in (IF batch_buffer = <<>> THEN {TRUE} ELSE Reachable) :
          LET r == process_batch(carriers_table, batch_buffer, db_clock, up)
          IN /\ carriers_table' = r.table
             /\ total_inserted' = total_inserted + r.inserted
             /\ total_updated' = total_updated + r.updated
             /\ total_errors' = total_errors + r.errors
             /\ db_faults' = (IF up THEN db_faults ELSE db_faults + 1)
             /\ p_batch_raised' = (IF r.raised = "" THEN p_batch_raised
                                   ELSE p_batch_raised + 1)
             /\ batch_buffer' = batch_buffer
             /\ ppc' = (IF r.raised = "" THEN "done" ELSE "raised")
             /\ p_raised' = r.raised
             /\ p_submitted' = (IF batch_buffer = <<>> THEN p_submitted
                                ELSE Append(p_submitted, Submission(batch_buffer, r.raised)))
    /\ db_clock' = db_clock + 1
    /\ UNCHANGED <<p_offset, estimated_total, api_batch, p_idx, total_fetched,
                   p_normalized, p_requested, p_progress>>
    /\ UNCHANGED <<pipeParams, pipeOthers>>

PipeNext ==
    \/ PipeStart
    \/ PipeFetch
    \/ PipeFetchRaises
    \/ PipeRecord
    \/ PipeRecordBatch
    \/ PipeRecordError
    \/ PipePageDone
    \/ PipeFinish

SpecPipe == PipeInit /\ [][PipeNext]_vars

\* the records among the first n of the stream on which normalize raises
FailuresBefore(n) ==
    Cardinality({i \in 1..n : IsRaise(normalize(RawOf(stream[i], i)))})

\* a full run in which no batch write has failed
FullRunNoBatchFailure == mode = "full" /\ p_batch_raised = 0

\* C6 (as stated): with max_errors = B a full run over a stream with exactly
\* B validation failures processes every page up to the end of the stream
\* and completes normally.
C6_BudgetFailuresComplete ==
    (FullRunNoBatchFailure /\ ppc = "done" /\ FailuresBefore(Len(stream)) = max_errors) =>
        /\ p_normalized = Len(stream)
        /\ total_fetched = Len(stream)

\* C6 (amended): in a full run with max_errors = B >= 1 in which no batch
\* write fails, the errors counted are the validation failures met so far
\* and never pass B; a stream with fewer than B failures is processed to its
\* end; the B-th failure halts the run: it is the last record normalized, no
\* further page is requested, and the run goes on to flush its buffer and
\* return its statistics.  With B = 0 the run requests one page at most.
C6_HaltsAtBudget ==
    FullRunNoBatchFailure =>
        /\ total_errors = FailuresBefore(p_normalized)
        /\ max_errors = 0 => Len(p_requested) <= 1
        /\ max_errors >= 1 =>
              /\ total_errors <= max_errors
              /\ (ppc = "done" /\ FailuresBefore(Len(stream)) < max_errors) =>
                    /\ p_normalized = Len(stream)
                    /\ total_fetched = Len(stream)
              /\ total_errors = max_errors =>
                    /\ ppc \in {"flush", "done", "raised"}
                    /\ IsRaise(normalize(RawOf(stream[p_normalized], p_normalized)))

\* the second failure of a budget of two halts a run that has records left
C6_Witness ==
    /\ FullRunNoBatchFailure
    /\ ppc = "done"
    /\ max_errors = 2
    /\ total_errors = 2
    /\ p_normalized < Len(stream)

\* C7: an incremental run stops fetching and processing once the number of
\* errors passes max_errors, as run_full_ingestion does.
C7_IncrementalHonoursBudget ==
    (mode = "incremental" /\ total_errors > max_errors) =>
        /\ ppc # "fetch"
        /\ ~(ppc = "record" /\ p_idx <= Len(api_batch))

\* C12: a page whose fetch exhausts its retries is absorbed: while the error
\* budget is not exceeded a full run does not end by propagating the fetch
\* exception.
C12_FetchFailureAbsorbed ==
    (mode = "full" /\ total_errors <= max_errors) => p_raised # "FetchError"

\* C13: a failed batch write is not fatal: while the error budget is not
\* exceeded, a full run does not end by propagating the exception of a batch
\* write, be it a batch of the page loop or the final partial batch.
C13_BatchFailureNotFatal ==
    (mode = "full" /\ total_errors < max_errors) =>
        p_raised \in {"", "FetchError"}

\* the natural keys of the i-th call of _process_batch
KeysOf(i) == {p_submitted[i][1][k] : k \in DOMAIN p_submitted[i][1]}

\* the i-th call of _process_batch took COPY and raised
FastPathFailed(i) == p_submitted[i][2] = "copy" /\ p_submitted[i][3] # ""

\* C14: once the bulk append of a batch has failed, none of its records is
\* handed to the bulk append again during the run.
C14_NoFastPathRetry ==
    \A i, j \in DOMAIN p_submitted :
        (i < j /\ FastPathFailed(i) /\ p_submitted[j][2] = "copy") =>
            KeysOf(i) \cap KeysOf(j) = {}

\* C15: in an incremental update every batch, whatever its size, is written
\* with INSERT ... ON CONFLICT DO UPDATE and never with COPY.
C15_IncrementalNeverCopies ==
    mode = "incremental" =>
        \A i \in DOMAIN p_submitted : p_submitted[i][2] = "insert"

\* the length of the pages run_full_ingestion and run_incremental_update ask for
PageSize == ClampedLimit(MAX_RECORDS_PER_REQUEST)

\* the requests of fetch_all walk the source page by page; every request
\* that was followed by another one had returned a full page; no request is
\* pending after a page that was empty or short; the source is never asked
\* for more pages than it has, and one
PagesEndAtShortPage ==
    /\ \A i \in DOMAIN p_requested : p_requested[i] = (i - 1) * PageSize
    /\ \A i \in DOMAIN p_requested :
          i < Len(p_requested) => Len(StreamPage(PageSize, p_requested[i])) = PageSize
    /\ (ppc = "fetch" /\ p_requested # <<>>) =>
          Len(StreamPage(PageSize, p_requested[Len(p_requested)])) = PageSize
    /\ Len(p_requested) <= (Len(stream) \div PageSize) + 1
    /\ p_raised = "FetchError" => ppc = "raised"

\* the steps a run has left at most: the records of the source not yet
\* passed by the offset weigh a page's worth of steps each, the page at hand
\* weighs the records not yet taken from it
StepsLeft ==
    CASE ppc \in {"done", "raised"} -> 0
      [] ppc = "flush" -> 1
      [] ppc = "record" ->
            (Len(stream) - p_offset) * (PageSize + 4) + (PageSize + 4 - p_idx)
      [] ppc = "fetch" -> (Len(stream) - p_offset) * (PageSize + 4) + PageSize + 5
      [] OTHER -> (Len(stream) + 2) * (PageSize + 4)

\* C16: an empty page, or a page shorter than asked for, ends the page
\* sequence: no request follows it and no error is raised; every step of a
\* run over a finite source lowers the number of steps it has left, so the
\* page sequence terminates.
C16_EndOfStream ==
    /\ [](PagesEndAtShortPage /\ StepsLeft >= 0)
    /\ [][StepsLeft' < StepsLeft]_vars

\* a run ended normally by an empty page that followed a full one
C16_Witness ==
    /\ ppc = "done"
    /\ p_raised = ""
    /\ Len(p_requested) = 2
    /\ Len(stream) = PageSize
    /\ p_requested[2] = Len(stream)

\* a full run over valid records only that found the carriers table empty,
\* met no failure and has returned its statistics
FreshCleanRun ==
    /\ mode = "full"
    /\ ppc = "done"
    /\ p_initial_table = <<>>
    /\ p_batch_raised = 0
    /\ \A i \in DOMAIN stream : stream[i] = "carrier"

\* the loader has received the first n records of the source, in source
\* order, in batches of batch_size and a last shorter one, and n rows were
\* fetched and inserted, none updated, none in error
LoadedInBatches(n) ==
    /\ total_fetched = n
    /\ total_inserted = n
    /\ total_updated = 0
    /\ total_errors = 0
    /\ Len(carriers_table) = n
    /\ Len(p_submitted) = (n + batch_size - 1) \div batch_size
    /\ \A j \in DOMAIN p_submitted :
          /\ p_submitted[j][3] = ""
          /\ p_submitted[j][1] =
                [k \in 1..Min(batch_size, n - (j - 1) * batch_size) |->
                    IntVal((j - 1) * batch_size + k)]

\* C17 (as stated): a fresh full run over N valid records with batch size B
\* and no failures hands the loader ceil(N/B) batches in source order, of
\* sizes B, ..., B and a last N mod B, and ends with total_fetched = N,
\* total_inserted = N, total_updated = 0 and total_errors = 0.
C17_FreshRunLoadsAll == FreshCleanRun => LoadedInBatches(Len(stream))

\* C17 (amended): the same holds when max_errors >= 1; with max_errors = 0
\* the run stops after its first page, and what holds for N holds for the
\* length of that page.
C17_FreshRunLoadsPages ==
    FreshCleanRun =>
        LoadedInBatches(IF max_errors = 0 THEN Min(Len(stream), PageSize)
                        ELSE Len(stream))

\* three records in batches of two: a full batch and the final partial one
C17_Witness ==
    /\ FreshCleanRun
    /\ max_errors >= 1
    /\ Len(stream) = 3
    /\ batch_size = 2
    /\ Len(p_submitted) = 2

\* C18: the progress callback given to a run is invoked once after each
\* fetched page, with the number of records fetched so far, and the last
\* invocation of a run that returned reports the run's total_fetched.
C18_ProgressAfterEachPage ==
    ppc = "done" =>
        /\ Len(p_progress) = (total_fetched + PageSize - 1) \div PageSize
        /\ \A i \in DOMAIN p_progress :
              p_progress[i][1] = Min(i * PageSize, Len(stream))
        /\ total_fetched > 0 => p_progress[Len(p_progress)][1] = total_fetched

\* the record at hand and what normalize makes of it
RecordAtHand == ppc = "record" /\ p_idx <= Len(api_batch)
RecordFails == RecordAtHand /\ IsRaise(normalize(api_batch[p_idx]))
RecordPasses == RecordAtHand /\ ~IsRaise(normalize(api_batch[p_idx]))

\* the failure at hand brings the errors of a full run to its budget
FailureSpendsBudget == mode = "full" /\ total_errors + 1 >= max_errors

\* C19: a record on which normalize raises is dropped without halting its
\* page: the buffer and the store stay as they are, total_errors grows by
\* exactly 1, and while the budget is not reached the run goes on with the
\* next record of the page; a later record that normalizes is appended to
\* the buffer, which is then kept or handed to the loader.
C19_FailedRecordDropped ==
    [][/\ RecordFails =>
            /\ batch_buffer' = batch_buffer
            /\ p_submitted' = p_submitted
            /\ carriers_table' = carriers_table
            /\ total_inserted' = total_inserted
            /\ total_updated' = total_updated
            /\ total_errors' = total_errors + 1
            /\ api_batch' = api_batch
            /\ p_idx' = p_idx + 1
            /\ ppc' = (IF FailureSpendsBudget THEN "flush" ELSE "record")
       /\ RecordPasses =>
            \/ batch_buffer' = Append(batch_buffer, normalize(api_batch[p_idx])[2])
            \/ /\ batch_buffer' = <<>>
               /\ p_submitted' = Append(p_submitted,
                      Submission(Append(batch_buffer, normalize(api_batch[p_idx])[2]), ""))
      ]_vars

\* the first record of a page was dropped, the second one is in the buffer
C19_Witness ==
    /\ p_offset = 0
    /\ ppc = "record"
    /\ p_idx = 3
    /\ IsRaise(normalize(api_batch[1]))
    /\ total_errors = 1
    /\ batch_buffer = <<normalize(api_batch[2])[2]>>

\* the tokens that say no, as the tokens of TrueTokens say yes
FalseTokens == {<<"N">>, <<"N", "O">>, <<"F", "A", "L", "S", "E">>, <<"0">>}

\* a raw string that is no yes/no token
NoFlagToken(v) ==
    IsStr(v) /\ Upper(Strip(v[2])) \notin TrueTokens \cup FalseTokens

\* a raw string without a digit, which no number can be read from
NoNumber(v) == IsStr(v) /\ \A i \in DOMAIN v[2] : v[2][i] \notin Digits

\* the field is unknown in the normalized record: absent, or None
UnknownIn(normalized, field) ==
    field \notin DOMAIN normalized \/ normalized[field] = None

\* C20: an unrecognized raw value becomes the unknown, never a default: a
\* hazmat_flag that is no yes/no token is not stored as False, a
\* power_units no number can be read from is not stored as 0.
C20_UnknownNeverDefault ==
    (npc = "done" /\ ~IsRaise(n_result)) =>
        /\ ("hazmat_flag" \in DOMAIN n_raw /\ NoFlagToken(n_raw["hazmat_flag"])) =>
              UnknownIn(n_result[2], "hazmat_flag")
        /\ ("power_units" \in DOMAIN n_raw /\ NoNumber(n_raw["power_units"])) =>
              UnknownIn(n_result[2], "power_units")

\* the formats of the list that parse s, and what the first of them gives
ParsingFormats(s) ==
    {i \in DOMAIN DATE_FORMATS : ~IsRaise(Strptime(s, DATE_FORMATS[i]))}
FirstParse(s) ==
    IF ParsingFormats(s) = {} THEN None
    ELSE Strptime(s, DATE_FORMATS[CHOOSE i \in ParsingFormats(s) :
                                      \A j \in ParsingFormats(s) : i <= j])

\* the raw record without its date field
WithoutDate(record) == [f \in DOMAIN record \ {"mcs_150_date"} |-> record[f]]

\* the record holds a string in the date field
HasDateString(record) ==
    "mcs_150_date" \in DOMAIN record /\ IsStr(record["mcs_150_date"])

\* the two records agree on every field but the date and the raw copy
SameButDate(a, b) ==
    /\ DOMAIN a \ {"mcs_150_date"} = DOMAIN b \ {"mcs_150_date"}
    /\ \A f \in DOMAIN a \ {"mcs_150_date", "raw_data"} : a[f] = b[f]

\* C21: a date string becomes what the first of the five formats that
\* parses it gives, and None when none does ("13/40/2024", "invalid"); the
\* date never makes normalize raise, and the rest of the record is what it
\* is without the date.
C21_DateCoercion ==
    (npc = "done" /\ HasDateString(n_raw)) =>
        /\ IsRaise(n_result) <=> IsRaise(normalize(WithoutDate(n_raw)))
        /\ ~IsRaise(n_result) =>
              /\ SameButDate(n_result[2], normalize(WithoutDate(n_raw))[2])
              /\ IF FirstParse(Strip(n_raw["mcs_150_date"][2])) = None
                 THEN UnknownIn(n_result[2], "mcs_150_date")
                 ELSE n_result[2]["mcs_150_date"] =
                          FirstParse(Strip(n_raw["mcs_150_date"][2]))
              /\ n_raw["mcs_150_date"] \in
                     {Str(<<"1", "3", "/", "4", "0", "/", "2", "0", "2", "4">>),
                      Str(<<"i", "n", "v", "a", "l", "i", "d">>)} =>
                    n_result[2]["mcs_150_date"] = None
              /\ n_raw["mcs_150_date"] =
                     Str(<<"0", "6", "/", "1", "5", "/", "2", "0", "2", "4">>) =>
                    n_result[2]["mcs_150_date"] = Date(2024, 6, 15)

\* a record with a key and the date "13/40/2024" was normalized
C21_Witness ==
    /\ npc = "done"
    /\ HasDateString(n_raw)
    /\ n_raw["mcs_150_date"] = Str(<<"1", "3", "/", "4", "0", "/", "2", "0", "2", "4">>)
    /\ ~IsRaise(n_result)
    /\ n_result[2]["mcs_150_date"] = None
    /\ n_result[2]["usdot_number"] = IntVal(7)

(***************************************************************************)
(* FMCSAClient.fetch_all (src/fmcsa_system/ingestion/fmcsa_client.py,      *)
(* lines 162-238): the generator, the fetch_batch calls it awaits and the  *)
(* consumer that iterates over it                                          *)
(***************************************************************************)
MaxFetchRetries == 2      \* max_retries ranges over 0..MaxFetchRetries
MaxFetchSource == 3       \* the service holds 0..MaxFetchSource records
MaxFetchBatch == 3        \* batch_size ranges over 1..MaxFetchBatch
MaxFetchFaults == 2       \* the service answers at most so many requests
                          \* of a call of fetch_all with something else than 200
RATE_LIMIT_DELAY == 500   \* rate_limit_delay: float = 0.5, in milliseconds

\* the variables of the components other than fetch_all and the client
fetchOthers == <<bulkVars, normVars, storeVars, loadVars, pipeVars, poolVars, schedVars>>

\* the parameters of the call and of the client
fetchParams == <<f_batch_size, f_where, f_callback, max_retries, remote_len>>

FetchInit ==
    /\ fpc = "start"
    /\ f_batch_size \in 1..MaxFetchBatch
    /\ f_where \in BOOLEAN
    /\ f_callback \in BOOLEAN
    /\ max_retries \in 0..MaxFetchRetries
    /\ remote_len \in 0..MaxFetchSource
    /\ f_offset = 0
    /\ f_estimated_total = 0
    /\ f_batch = <<>>
    /\ f_yielded = <<>>
    /\ f_log = <<>>
    /\ cpc = "idle"
    /\ c_limit = 0
    /\ c_offset = 0
    /\ attempt = 0
    /\ c_response = ""
    /\ c_outcomes = <<>>
    /\ c_requests = 0
    /\ c_slept = <<>>
    /\ c_result = <<>>
    /\ stats_total_requests = 0
    /\ stats_total_records = 0
    /\ stats_failed_requests = 0
    /\ BulkIdle
    /\ NormIdle
    /\ StoreIdle
    /\ LoadIdle
    /\ PipeIdle
    /\ PoolIdle
    /\ SchedIdle

\* await self.fetch_batch(limit, offset, ...): the call starts at the top
\* of its retry loop
CallFetchBatch(limit, off) ==
    /\ c_limit' = limit
    /\ c_offset' = off
    /\ cpc' = "for"
    /\ attempt' = 0
    /\ c_response' = ""
    /\ c_outcomes' = <<>>
    /\ c_requests' = 0
    /\ c_slept' = <<>>
    /\ c_result' = <<>>
    /\ UNCHANGED <<stats_total_requests, stats_total_records, stats_failed_requests>>

\* the client's variables a step of fetch_all itself leaves alone
clientCall == <<cpc, c_limit, c_offset, attempt, c_response, c_outcomes,
                c_requests, c_slept, c_result, stats_total_requests,
                stats_total_records, stats_failed_requests>>

\* lines 183-197: offset = 0, estimated_total = 2200000; with a where
\* clause the count is asked for first
FetchAllStart ==
    /\ fpc = "start"
    /\ f_offset' = 0
    /\ f_estimated_total' = ESTIMATED_TOTAL
    /\ IF f_where
       THEN /\ CallFetchBatch(1, 0)
            /\ f_log' = Append(f_log, <<"count">>)
            /\ fpc' = "count"
       ELSE /\ UNCHANGED <<clientCall, f_log>>
            /\ fpc' = "loop"
    /\ UNCHANGED <<f_batch, f_yielded>>
    /\ UNCHANGED <<fetchParams, fetchOthers>>

\* lines 195-197: the count query has returned its one row
FetchAllCounted ==
    /\ fpc = "count"
    /\ cpc = "returned"
    /\ f_estimated_total' = remote_len
    /\ f_log' = f_log \o c_slept
    /\ fpc' = "loop"
    /\ UNCHANGED <<f_offset, f_batch, f_yielded, clientCall>>
    /\ UNCHANGED <<fetchParams, fetchOthers>>

\* lines 199-206: while True: batch = await self.fetch_batch(limit=batch_size,
\* offset=offset)
FetchAllRequest ==
    /\ fpc = "loop"
    /\ CallFetchBatch(f_batch_size, f_offset)
    /\ f_log' = Append(f_log, <<"request", f_offset>>)
    /\ fpc' = "page"
    /\ UNCHANGED <<f_offset, f_estimated_total, f_batch, f_yielded>>
    /\ UNCHANGED <<fetchParams, fetchOthers>>

\* lines 208-212 and 237-238: an empty page ends the generator, any other
\* page is yielded to the consumer
FetchAllPage ==
    /\ fpc = "page"
    /\ cpc = "returned"
    /\ f_batch' = c_result
    /\ f_log' = (f_log \o c_slept) \o << <<"fetched", Len(c_result)>> >>
    /\ IF c_result = <<>>
       THEN /\ fpc' = "done"
            /\ f_yielded' = f_yielded
       ELSE /\ fpc' = "yielded"
            /\ f_yielded' = Append(f_yielded, c_result)
    /\ UNCHANGED <<f_offset, f_estimated_total, clientCall>>
    /\ UNCHANGED <<fetchParams, fetchOthers>>

\* fetch_batch raised, for the count or for a page: the exception leaves
\* the generator
FetchAllRaises ==
    /\ fpc \in {"count", "page"}
    /\ cpc = "raised"
    /\ f_log' = (f_log \o c_slept) \o << <<"raised">> >>
    /\ fpc' = "raised"
    /\ UNCHANGED <<f_offset, f_estimated_total, f_batch, f_yielded, clientCall>>
    /\ UNCHANGED <<fetchParams, fetchOthers>>

\* lines 231-232: if len(batch) < batch_size: break
ShortPage(page) == Len(page) < f_batch_size

\* mutant: the politeness delay is slept after the last page too
RestNeededAlways(page) == TRUE

\* lines 231-235: the delay is slept when the loop goes round again
RestNeeded(page) == ~ShortPage(page)

\* mutant: the offset moves one record too far
NextOffsetSkips(off, page) == off + Len(page) + 1

\* line 215: offset += len(batch)
NextOffset(off, page) == off + Len(page)

\* the consumer has processed the page and asks for the next one; lines
\* 214-238: the offset moves, progress is reported, and the generator ends
\* after a short page or sleeps rate_limit_delay and loops
FetchAllResume ==
    /\ fpc = "yielded"
    /\ f_offset' = NextOffset(f_offset, f_batch)
    /\ f_log' = ((f_log \o << <<"consumed", Len(f_yielded)>> >>)
                    \o (IF f_callback
                        THEN << <<"progress", f_offset', f_estimated_total>> >>
                        ELSE <<>>))
                    \o (IF RestNeeded(f_batch)
                        THEN << <<"politeness", RATE_LIMIT_DELAY>> >>
                        ELSE <<>>)
    /\ fpc' = (IF ShortPage(f_batch) THEN "done" ELSE "loop")
    /\ UNCHANGED <<f_estimated_total, f_batch, f_yielded, clientCall>>
    /\ UNCHANGED <<fetchParams, fetchOthers>>

\* the consumer leaves its loop: the generator is closed at the yield
FetchAllClosed ==
    /\ fpc = "yielded"
    /\ f_log' = Append(f_log, <<"closed">>)
    /\ fpc' = "closed"
    /\ UNCHANGED <<f_offset, f_estimated_total, f_batch, f_yielded, clientCall>>
    /\ UNCHANGED <<fetchParams, fetchOthers>>

\* the requests fetch_all has seen fail so far: those of the calls that have
\* returned were each followed by a sleep, those of the call at hand are
\* given
FetchFaults(outcomes) ==
    Cardinality({i \in DOMAIN f_log : f_log[i][1] \in {"retry_after", "backoff"}})
        + Cardinality({i \in DOMAIN outcomes : outcomes[i] # "200"})

\* fetch_batch runs while fetch_all awaits it
FetchBatchStep ==
    /\ fpc \in {"count", "page"}
    /\ ClientNext
    /\ FetchFaults(c_outcomes') <= MaxFetchFaults

FetchNext ==
    \/ FetchAllStart
    \/ FetchAllCounted
    \/ FetchAllRequest
    \/ FetchAllPage
    \/ FetchAllRaises
    \/ FetchAllResume
    \/ FetchAllClosed
    \/ FetchBatchStep

SpecFetch == FetchInit /\ [][FetchNext]_vars

\* the positions of the log that hold an event of the given kind
LogEvents(kind) == {i \in DOMAIN f_log : f_log[i][1] = kind}

\* two page fetches that succeeded one after the other
ConsecutiveFetches(i, j) ==
    /\ i \in LogEvents("fetched")
    /\ j \in LogEvents("fetched")
    /\ i < j
    /\ \A k \in LogEvents("fetched") : ~(i < k /\ k < j)

\* the backoff sleeps of the fetch_batch call at hand
BackoffSleeps == {i \in DOMAIN c_slept : c_slept[i][1] = "backoff"}

\* the attempts of the call at hand, the last one left out, that failed
\* transiently
EarlierTransient ==
    {i \in 1..(Len(c_outcomes) - 1) : c_outcomes[i] \in Transient}

\* C22: between two consecutive successful page fetches fetch_all sleeps
\* rate_limit_delay exactly once, whatever backoff fetch_batch sleeps in
\* between; no such sleep follows the page that ends the sequence; and
\* fetch_batch sleeps no backoff after the last failed attempt of a call.
C22_PolitenessDelay ==
    /\ \A i, j \in DOMAIN f_log :
          ConsecutiveFetches(i, j) =>
              Cardinality({k \in LogEvents("politeness") : i < k /\ k < j}) = 1
    /\ \A k \in LogEvents("politeness") : f_log[k][2] = RATE_LIMIT_DELAY
    /\ fpc \in {"done", "closed"} =>
          \A k \in LogEvents("politeness") :
              \E j \in LogEvents("fetched") : k < j
    /\ (fpc \in {"count", "page"} /\ cpc = "raised") =>
          Cardinality(BackoffSleeps) = Cardinality(EarlierTransient)

\* two pages were fetched, the second one after a timeout and its backoff,
\* and the generator has ended
C22_Witness ==
    /\ fpc = "done"
    /\ \E i, j \in DOMAIN f_log :
          /\ ConsecutiveFetches(i, j)
          /\ \E k \in LogEvents("backoff") : i < k /\ k < j

\* every attempt of a page timed out: the call raises after one backoff
\* fewer than attempts
C22_WitnessExhausted ==
    /\ fpc = "page"
    /\ cpc = "raised"
    /\ max_retries = 2
    /\ c_outcomes = <<"timeout", "timeout">>
    /\ Len(c_slept) = 1

\* C23: the batch buffer never holds more than batch_size records, and no
\* batch handed to _process_batch does, also after a batch write has failed.
C23_BatchWithinSize ==
    /\ Len(batch_buffer) <= batch_size
    /\ \A i \in DOMAIN p_submitted : Len(p_submitted[i][1]) <= batch_size

\* the page requests of the log, in order
IsRequest(e) == e[1] = "request"
Requests == SelectSeq(f_log, IsRequest)

\* the number of records of the first n pages yielded
RECURSIVE YieldedBefore(_)
YieldedBefore(n) == IF n = 0 THEN 0 ELSE YieldedBefore(n - 1) + Len(f_yielded[n])

\* the position in the log of the k-th page request
RequestAt(k) ==
    CHOOSE i \in LogEvents("request") :
        Cardinality({j \in LogEvents("request") : j <= i}) = k

\* C24: page k+1 is requested only after the consumer has finished page k,
\* the requested offsets are strictly increasing, and each one is the number
\* of records yielded by the pages before it.
C24_PageSequencing ==
    \A k \in DOMAIN Requests :
        /\ Requests[k][2] = YieldedBefore(k - 1)
        /\ k > 1 => Requests[k - 1][2] < Requests[k][2]
        /\ k > 1 => \E c \in LogEvents("consumed") :
                        /\ f_log[c][2] = k - 1
                        /\ c < RequestAt(k)
                        /\ RequestAt(k - 1) < c

\* a third page is being fetched after two pages of one record
C24_Witness ==
    /\ fpc = "page"
    /\ Len(Requests) = 3
    /\ Requests[3][2] = 2
    /\ Len(f_yielded) = 2

\* the records of the first n pages yielded, in the order they were yielded
RECURSIVE YieldedRecords(_)
YieldedRecords(n) == IF n = 0 THEN <<>> ELSE YieldedRecords(n - 1) \o f_yielded[n]

\* C25: whatever batch_size is, the pages of a fetch_all that ended normally
\* hold every record of the source exactly once, in offset order.
C25_FetchAllComplete ==
    fpc = "done" => YieldedRecords(Len(f_yielded)) = RemoteData

\* IngestionStats.success_rate, rounded down to a whole percent
success_rate ==
    IF total_fetched = 0 THEN 0
    ELSE ((total_fetched - total_errors) * 100) \div total_fetched

\* C26: in every state of a run 0 <= total_errors <= total_fetched, so
\* success_rate lies between 0 and 100, also after batch writes have failed.
C26_ErrorsWithinFetched ==
    ppc # "idle" =>
        /\ 0 <= total_errors
        /\ total_errors <= total_fetched
        /\ 0 <= success_rate
        /\ success_rate <= 100

\* C27: when a full run returns its statistics every fetched record is
\* accounted for exactly once: total_fetched = total_inserted +
\* total_updated + total_errors.
C27_RecordAccounting ==
    (mode = "full" /\ ppc = "done") =>
        total_fetched = total_inserted + total_updated + total_errors

\* C28: after a batch went through INSERT ... ON CONFLICT, the stored row of
\* each of its keys holds the value of the loaded record in every column the
\* loader writes; no column keeps the value of the older row.
C28_UpdateInPlaceComplete ==
    (loads >= 1 /\ l_raised[1] = "" /\ Len(l_records) <= COPY_THRESHOLD) =>
        \A i \in DOMAIN l_records :
            \A j \in Conflict(carriers_table, l_records[i]["usdot_number"]) :
                \A c \in COLUMNS : carriers_table[j][c] = l_records[i][c]

(***************************************************************************)
(* DatabasePool (src/fmcsa_system/database/connection.py, lines 26-104):   *)
(* coroutines of one event loop call initialize, acquire and close on one  *)
(* DatabasePool; a step runs from one await to the next                    *)
(***************************************************************************)
MaxTasks == 2             \* the coroutines that use the pool
MaxPoolCalls == 2         \* the calls each of them makes

Tasks == 1..MaxTasks

\* self.pool is None
NoPool == 0

\* the variables of the components other than the database pool
poolOthers == <<bulkVars, normVars, storeVars, loadVars, clientVars, pipeVars,
                fetchVars, schedVars>>

\* a DatabasePool just constructed, and coroutines that have called nothing
PoolStart ==
    /\ pool = NoPool
    /\ created = 0
    /\ closed = {}
    /\ tpc = [t \in Tasks |-> "ready"]
    /\ t_call = [t \in Tasks |-> ""]
    /\ t_pool = [t \in Tasks |-> NoPool]
    /\ t_calls = [t \in Tasks |-> 0]
    /\ t_raised = [t \in Tasks |-> ""]

PoolInit ==
    /\ PoolStart
    /\ BulkIdle
    /\ NormIdle
    /\ StoreIdle
    /\ LoadIdle
    /\ ClientIdle
    /\ PipeIdle
    /\ FetchIdle
    /\ SchedIdle

\* the task goes to pc and everything else of the tasks stays
TaskGoes(t, pc) == tpc' = [tpc EXCEPT ![t] = pc]

\* the call of the task is over
TaskReturns(t) == TaskGoes(t, "ready")

\* if self.pool: / if not self.pool:
HasPool == pool # NoPool

\* Pool.acquire() raises InterfaceError on a pool that is closed or closing
PoolUnusable(p) ==
    \/ p \in closed
    \/ \E u \in Tasks : tpc[u] = "close" /\ t_pool[u] = p

\* initialize(), lines 60-61: with a pool it returns at once, without one
\* it awaits asyncpg.create_pool
PoolInitialize(t) ==
    /\ tpc[t] = "ready"
    /\ t_calls' = [t_calls EXCEPT ![t] = @ + 1]
    /\ t_call' = [t_call EXCEPT ![t] = "initialize"]
    /\ IF HasPool THEN TaskReturns(t) ELSE TaskGoes(t, "create_pool")
    /\ t_raised' = [t_raised EXCEPT ![t] = ""]
    /\ UNCHANGED <<pool, created, closed, t_pool>>
    /\ UNCHANGED poolOthers

\* lines 65-77: create_pool has returned a new pool, which is assigned to
\* self.pool; a connection of self.pool is acquired to test it.  Or
\* create_pool raised
PoolCreated(t) ==
    /\ tpc[t] = "create_pool"
    /\ \/ /\ created' = created + 1
          /\ pool' = created + 1
          /\ t_pool' = [t_pool EXCEPT ![t] = created + 1]
          /\ TaskGoes(t, "test")
          /\ UNCHANGED t_raised
       \/ /\ t_raised' = [t_raised EXCEPT ![t] = "create_pool"]
          /\ TaskReturns(t)
          /\ UNCHANGED <<pool, created, t_pool>>
    /\ UNCHANGED <<closed, t_call, t_calls>>
    /\ UNCHANGED poolOthers

\* lines 76-77 and 97-100: SELECT 1 has answered on the connection, which
\* is released: initialize returns; inside acquire, self.pool.acquire()
\* follows, which fails when self.pool is None by now, closed or closing
PoolTested(t) ==
    /\ tpc[t] = "test"
    /\ IF t_call[t] = "initialize"
       THEN /\ TaskReturns(t)
            /\ UNCHANGED <<t_pool, t_raised>>
       ELSE IF pool = NoPool \/ PoolUnusable(pool)
       THEN /\ TaskReturns(t)
            /\ t_raised' = [t_raised EXCEPT ![t] = "acquire"]
            /\ UNCHANGED t_pool
       ELSE /\ TaskGoes(t, "connection")
            /\ t_pool' = [t_pool EXCEPT ![t] = pool]
            /\ UNCHANGED t_raised
    /\ UNCHANGED <<pool, created, closed, t_call, t_calls>>
    /\ UNCHANGED poolOthers

\* acquire(), lines 97-100: without a pool it awaits initialize, with one
\* it enters self.pool.acquire(), which fails on a closed or closing pool
PoolAcquire(t) ==
    /\ tpc[t] = "ready"
    /\ t_calls' = [t_calls EXCEPT ![t] = @ + 1]
    /\ t_call' = [t_call EXCEPT ![t] = "acquire"]
    /\ IF ~HasPool
       THEN /\ TaskGoes(t, "create_pool")
            /\ t_raised' = [t_raised EXCEPT ![t] = ""]
            /\ UNCHANGED t_pool
       ELSE IF PoolUnusable(pool)
       THEN /\ TaskReturns(t)
            /\ t_raised' = [t_raised EXCEPT ![t] = "acquire"]
            /\ UNCHANGED t_pool
       ELSE /\ TaskGoes(t, "connection")
            /\ t_pool' = [t_pool EXCEPT ![t] = pool]
            /\ t_raised' = [t_raised EXCEPT ![t] = ""]
    /\ UNCHANGED <<pool, created, closed>>
    /\ UNCHANGED poolOthers

\* the body of 'async with db_pool.acquire() as conn' is over: the
\* connection goes back to its pool
PoolRelease(t) ==
    /\ tpc[t] = "connection"
    /\ TaskReturns(t)
    /\ UNCHANGED <<pool, created, closed, t_call, t_pool, t_calls, t_raised>>
    /\ UNCHANGED poolOthers

\* close(), lines 87-88: with a pool it awaits self.pool.close()
PoolClose(t) ==
    /\ tpc[t] = "ready"
    /\ t_calls' = [t_calls EXCEPT ![t] = @ + 1]
    /\ t_call' = [t_call EXCEPT ![t] = "close"]
    /\ IF HasPool
       THEN /\ TaskGoes(t, "close")
            /\ t_pool' = [t_pool EXCEPT ![t] = pool]
       ELSE /\ TaskReturns(t)
            /\ UNCHANGED t_pool
    /\ t_raised' = [t_raised EXCEPT ![t] = ""]
    /\ UNCHANGED <<pool, created, closed>>
    /\ UNCHANGED poolOthers

\* lines 88-90: Pool.close() waits until every connection is released and
\* returns: the pool is closed; self.pool = None
PoolClosed(t) ==
    /\ tpc[t] = "close"
    /\ \A u \in Tasks : ~(tpc[u] = "connection" /\ t_pool[u] = t_pool[t])
    /\ closed' = closed \cup {t_pool[t]}
    /\ pool' = NoPool
    /\ TaskReturns(t)
    /\ UNCHANGED <<created, t_call, t_pool, t_calls, t_raised>>
    /\ UNCHANGED poolOthers

\* the coroutine may make one call more
MayCall(t) == t_calls[t] < MaxPoolCalls

\* the coroutine calls initialize(), acquire() or close()
CallInitialize(t) == MayCall(t) /\ PoolInitialize(t)

CallAcquire(t) == MayCall(t) /\ PoolAcquire(t)

CallClose(t) == MayCall(t) /\ PoolClose(t)

PoolNext ==
    \E t \in Tasks :
        \/ CallInitialize(t)
        \/ PoolCreated(t)
        \/ PoolTested(t)
        \/ CallAcquire(t)
        \/ PoolRelease(t)
        \/ CallClose(t)
        \/ PoolClosed(t)

SpecPool == PoolInit /\ [][PoolNext]_vars

(***************************************************************************)
(* IngestionScheduler (src/fmcsa_system/ingestion/scheduler.py): the jobs  *)
(* of the AsyncIOScheduler and the manual refresh run as coroutines of one *)
(* event loop on the global db_pool                                        *)
(***************************************************************************)
\* the ids of the jobs start() adds, and the manual refresh of the admin
\* endpoint
JobKinds ==
    {"daily_refresh", "hourly_incremental", "stats_refresh", "manual_refresh"}

\* the job runs an ingestion pipeline, which writes to carriers
Ingests(kind) == kind \in {"daily_refresh", "hourly_incremental", "manual_refresh"}

\* the variables of the components other than the scheduler and the pool
schedOthers == <<bulkVars, normVars, storeVars, loadVars, clientVars, pipeVars,
                 fetchVars>>

SchedInit ==
    /\ j_kind = [t \in Tasks |-> ""]
    /\ j_stage = [t \in Tasks |-> "idle"]
    /\ j_calls = [t \in Tasks |-> 0]
    /\ PoolStart
    /\ BulkIdle
    /\ NormIdle
    /\ StoreIdle
    /\ LoadIdle
    /\ ClientIdle
    /\ PipeIdle
    /\ FetchIdle

\* the job is between its start and its end
Active(t) == j_stage[t] \notin {"idle", "over"}

\* max_instances=1 (lines 93 and 104, and the default of add_job): the
\* scheduler starts no second instance of one job id; run_manual_refresh
\* calls run_daily_refresh itself, past the scheduler
MayFire(t, kind) ==
    kind # "manual_refresh" =>
        \A u \in Tasks \ {t} : ~(Active(u) /\ j_kind[u] = kind)

\* a trigger fires, or the admin endpoint is called: the job starts
JobFires(t, kind) ==
    /\ j_stage[t] = "idle"
    /\ MayFire(t, kind)
    /\ j_kind' = [j_kind EXCEPT ![t] = kind]
    /\ j_stage' = [j_stage EXCEPT ![t] = "initialize_database"]
    /\ j_calls' = [j_calls EXCEPT ![t] = t_calls[t]]
    /\ UNCHANGED poolVars
    /\ UNCHANGED schedOthers

\* the job is about to make the call of its stage
AtCall(t, stage) ==
    /\ j_stage[t] = stage
    /\ t_calls[t] = j_calls[t]

\* lines 142, 202, 237: await initialize_database()
JobInitializeDatabase(t) ==
    /\ AtCall(t, "initialize_database")
    /\ PoolInitialize(t)

\* lines 152 and 215: run_full_ingestion and run_incremental_update begin
\* with await db_pool.initialize()
JobRun(t) ==
    /\ AtCall(t, "run")
    /\ PoolInitialize(t)

\* the run loads a batch, refresh_statistics (line 238) executes its
\* statement: async with db_pool.acquire()
JobStore(t) ==
    /\ AtCall(t, "store")
    /\ PoolAcquire(t)

\* lines 192, 230, 245: finally: await close_database()
JobCloseDatabase(t) ==
    /\ AtCall(t, "close_database")
    /\ PoolClose(t)

\* the await inside the call of the job's stage goes on
JobAwaits(t) ==
    /\ Active(t)
    /\ \/ PoolCreated(t)
       \/ PoolTested(t)
       \/ PoolRelease(t)
       \/ PoolClosed(t)

\* the stage that follows, once the call of the stage has returned or
\* raised: an exception leads to the finally clause
StageAfter(t) ==
    CASE j_stage[t] = "initialize_database" ->
            IF t_raised[t] # "" THEN "close_database"
            ELSE IF Ingests(j_kind[t]) THEN "run" ELSE "store"
      [] j_stage[t] = "run" ->
            IF t_raised[t] # "" THEN "close_database" ELSE "store"
      [] j_stage[t] = "store" -> "close_database"
      [] OTHER -> "over"

JobAdvance(t) ==
    /\ Active(t)
    /\ t_calls[t] > j_calls[t]
    /\ tpc[t] = "ready"
    /\ j_stage' = [j_stage EXCEPT ![t] = StageAfter(t)]
    /\ j_calls' = [j_calls EXCEPT ![t] = t_calls[t]]
    /\ UNCHANGED j_kind
    /\ UNCHANGED poolVars
    /\ UNCHANGED schedOthers

SchedNext ==
    \E t \in Tasks :
        \/ \E kind \in JobKinds : JobFires(t, kind)
        \/ JobInitializeDatabase(t)
        \/ JobRun(t)
        \/ JobStore(t)
        \/ JobCloseDatabase(t)
        \/ JobAwaits(t)
        \/ JobAdvance(t)

SpecSched == SchedInit /\ [][SchedNext]_vars

\* the job's ingestion run is in progress
Running(t) == Ingests(j_kind[t]) /\ j_stage[t] \in {"run", "store"}

\* the job's run holds a connection and writes to carriers
Writing(t) == Running(t) /\ tpc[t] = "connection"

\* the job's close_database() is closing the global pool
Closing(t) == j_stage[t] = "close_database" /\ tpc[t] = "close"

\* C30: the jobs do not interfere through the global pool: under any
\* interleaving of the daily refresh, the hourly incremental update, the
\* statistics refresh and the manual refresh, no job is closing the pool
\* while the ingestion run of another job is in progress, and at most one
\* ingestion run writes to carriers at a time
C30_JobsDoNotInterfere ==
    /\ \A t \in Tasks : \A u \in Tasks \ {t} : ~(Closing(t) /\ Running(u))
    /\ \A t \in Tasks : \A u \in Tasks \ {t} : ~(Writing(t) /\ Writing(u))

\* the pools created and not closed
OpenPools == (1..created) \ closed

\* C29: between two close calls DatabasePool creates at most one pool: under
\* any interleaving of initialize, acquire and close, create_pool has
\* returned at most one pool more than were closed, and every pool that is
\* created and not closed is the one self.pool refers to (none is
\* overwritten and leaked)
C29_OnePoolBetweenCloses ==
    /\ created <= Cardinality(closed) + 1
    /\ \A p \in OpenPools : pool = p

=============================================================================
